---- MODULE Spec2Model ----
(***************************************************************************)
(* IPO Intelligence Alpha (src/app.py): the enrichment pipeline of the     *)
(* Streamlit script, as a state machine.                                   *)
(*                                                                         *)
(* Spec       one run of the script: the two calendar fetches, the         *)
(*            de-duplication, the empty check, and the enrichment loop,    *)
(*            one stage of one candidate per step.                         *)
(* SpecSession  the runs of one session: Spec's steps, the page's cards with
           the "Add to Watchlist" buttons, and reruns.
SpecUnits  the helper functions called on their own, each on inputs     *)
(*            drawn from bounded sets.                                     *)
(***************************************************************************)
EXTENDS Integers, Sequences, FiniteSets, TLC

VARIABLES
    pc,           \* position of the script
    rows,         \* rows (line 392-394)
    df,           \* df, the de-duplicated frame (line 395)
    order,        \* df.sort_values("date"), the sequence the loop walks
    idx,          \* 1-based position of the loop in order
    cur,          \* the loop body's local variables for the current candidate
    enriched,     \* enriched (line 405)
    emptySignal,  \* TRUE once st.info(...) / st.stop() of line 398-399 ran
    watchlist,    \* st.session_state["watchlist"]
    faults,       \* number of non-nominal responses the network has given
    stages,       \* stages of the current candidate that have run, in order
    use_wiki,     \* the sidebar checkbox "Use Wikipedia summaries when available"
    fnIn,         \* SpecUnits: the call made (function and arguments)
    fnOut         \* SpecUnits: what the call returned

vars == <<pc, rows, df, order, idx, cur, enriched, emptySignal, watchlist,
          faults, stages, use_wiki, fnIn, fnOut>>

----------------------------------------------------------------------------
(* Python / JSON values, tagged.                                           *)

None == [t |-> "null"]
NaN == [t |-> "nan"]
Num(n) == [t |-> "num", n |-> n]
Str(s) == [t |-> "str", s |-> s]
List(items) == [t |-> "list", items |-> items]
\* a dict: its (key, value) pairs in insertion order
Map(items) == [t |-> "map", items |-> items]
KV(k, v) == [k |-> k, v |-> v]
\* the body of a response whose r.json() raises
Invalid == [t |-> "invalid"]

IsMap(v) == v.t = "map"
IsList(v) == v.t = "list"
IsStr(v) == v.t = "str"

\* bool(v)
Truthy(v) ==
    CASE v.t = "null" -> FALSE
      [] v.t = "num" -> v.n # 0
      [] v.t = "dec" -> v.c # 0
      [] v.t = "str" -> v.s # ""
      [] v.t = "list" -> v.items # <<>>
      [] v.t = "map" -> v.items # <<>>
      [] OTHER -> TRUE

\* a or b
Or(a, b) == IF Truthy(a) THEN a ELSE b

\* key in m
HasKey(m, k) == \E i \in 1..Len(m.items) : m.items[i].k = k

\* m.get(k, dflt)
GetDefault(m, k, dflt) ==
    IF HasKey(m, k)
    THEN m.items[CHOOSE i \in 1..Len(m.items) : m.items[i].k = k].v
    ELSE dflt

\* m.get(k)
Get(m, k) == GetDefault(m, k, None)

Min(a, b) == IF a < b THEN a ELSE b

\* responses of requests.get / requests.post
Transport == [kind |-> "transport"]
Timeout == [kind |-> "timeout"]
Http(status, body) == [kind |-> "http", status |-> status, json |-> body]
\* requests.get(...) returned, r.status_code == 200 and r.json() parsed
Answered(r) == r.kind = "http" /\ r.status = 200 /\ r.json # Invalid

----------------------------------------------------------------------------
(* Calendar adapters.  net is the sequence of responses the network would  *)
(* give to the successive requests of one call.                            *)

FmpRow(it) ==
    [source |-> Str("FMP"), date |-> Get(it, "date"), company |-> Get(it, "company"),
     symbol |-> Get(it, "symbol"), exchange |-> Get(it, "exchange"),
     price |-> Get(it, "price"), price_min |-> Get(it, "priceRangeLow"),
     price_max |-> Get(it, "priceRangeHigh"), shares |-> Get(it, "shares"),
     status |-> Get(it, "status"), deal_type |-> Get(it, "dealType")]

\* a second request when the first one failed
fetch_fmp_ipo_retry(net) ==
    LET Rows(r) ==
            LET data == Or(r.json, List(<<>>))
            IN  IF ~Answered(r) THEN <<>>
                ELSE IF ~IsList(data) \/ \E i \in 1..Len(data.items) : ~IsMap(data.items[i])
                THEN <<>>
                ELSE [i \in 1..Len(data.items) |-> FmpRow(data.items[i])]
    IN  IF Answered(net[1])
        THEN [rows |-> Rows(net[1]), requests |-> 1, raised |-> FALSE]
        ELSE [rows |-> Rows(net[2]), requests |-> 2, raised |-> FALSE]

\* rows: what is returned; requests: how many requests.get were issued;
\* raised: whether an exception left the function
fetch_fmp_ipo(net) ==
    LET r == net[1]
        data == Or(r.json, List(<<>>))
    IN  IF ~Answered(r) THEN [rows |-> <<>>, requests |-> 1, raised |-> FALSE]
        ELSE IF ~IsList(data) \/ \E i \in 1..Len(data.items) : ~IsMap(data.items[i])
        THEN [rows |-> <<>>, requests |-> 1, raised |-> FALSE]
        ELSE [rows |-> [i \in 1..Len(data.items) |-> FmpRow(data.items[i])],
              requests |-> 1, raised |-> FALSE]

FinnhubRow(it) ==
    [source |-> Str("Finnhub"), date |-> Get(it, "date"),
     company |-> Or(Get(it, "name"), Get(it, "company")),
     symbol |-> Get(it, "symbol"), exchange |-> Get(it, "exchange"),
     price |-> Get(it, "price"),
     price_min |-> Or(Get(it, "price_min"), Get(it, "priceRangeLow")),
     price_max |-> Or(Get(it, "price_max"), Get(it, "priceRangeHigh")),
     shares |-> Or(Get(it, "numberOfShares"), Get(it, "shares")),
     status |-> Get(it, "status"), deal_type |-> Get(it, "dealType")]

fetch_finnhub_ipo(token, net) ==
    LET r == net[1]
        js == Or(r.json, Map(<<>>))
        items == Or(Or(GetDefault(js, "ipoCalendar", List(<<>>)),
                       GetDefault(js, "data", List(<<>>))), List(<<>>))
    IN  IF token = "" THEN [rows |-> <<>>, requests |-> 0, raised |-> FALSE]
        ELSE IF ~Answered(r) \/ ~IsMap(js)
        THEN [rows |-> <<>>, requests |-> 1, raised |-> FALSE]
        ELSE IF ~IsList(items) \/ \E i \in 1..Len(items.items) : ~IsMap(items.items[i])
        THEN [rows |-> <<>>, requests |-> 1, raised |-> FALSE]
        ELSE [rows |-> [i \in 1..Len(items.items) |-> FinnhubRow(items.items[i])],
              requests |-> 1, raised |-> FALSE]

----------------------------------------------------------------------------
(* pd.DataFrame(rows).drop_duplicates(...) and df.sort_values("date")      *)

Columns == {"source", "date", "company", "symbol", "exchange", "price",
            "price_min", "price_max", "shares", "status", "deal_type"}

\* pd.DataFrame(rows): a column holding numbers and None only, with at least
\* one number, becomes a float column and its None become NaN
NumericColumn(rs, c) ==
    /\ \E i \in 1..Len(rs) : rs[i][c].t = "num"
    /\ \A i \in 1..Len(rs) : rs[i][c].t \in {"num", "null"}

DataFrame(rs) ==
    [i \in 1..Len(rs) |->
        [c \in Columns |->
            IF rs[i][c] = None /\ NumericColumn(rs, c) THEN NaN ELSE rs[i][c]]]

\* the key without the provider
KeyOfNoSource(r) == <<r.date, r.company, r.symbol>>

\* subset=['date','company','symbol','source']
KeyOf(r) == <<r.date, r.company, r.symbol, r.source>>

\* keep='first': a row is dropped when an earlier row has the same key
RECURSIVE drop_duplicates(_)
drop_duplicates(d) ==
    IF d = <<>> THEN <<>>
    ELSE LET n == Len(d)
             front == drop_duplicates(SubSeq(d, 1, n - 1))
         IN  IF \E i \in 1..(n - 1) : KeyOf(d[i]) = KeyOf(d[n])
             THEN front ELSE Append(front, d[n])

\* the characters of the dates and names, in code-point order
CodePointOrder == " &,-.0123456789ABCDEFGHIJKLMNOPQRSTUVWXYZ_abcdefghijklmnopqrstuvwxyz"
CharCode(c) == CHOOSE i \in 1..Len(CodePointOrder) : SubSeq(CodePointOrder, i, i) = c

\* a < b on str
RECURSIVE StrLess(_, _)
StrLess(a, b) ==
    IF b = "" THEN FALSE
    ELSE IF a = "" THEN TRUE
    ELSE LET ca == CharCode(SubSeq(a, 1, 1))
             cb == CharCode(SubSeq(b, 1, 1))
         IN  IF ca # cb THEN ca < cb
             ELSE StrLess(SubSeq(a, 2, Len(a)), SubSeq(b, 2, Len(b)))

\* x may stand before y in an ascending sort with na_position='last'
DateLeq(x, y) == y = None \/ (x # None /\ ~StrLess(y.s, x.s))

Perms(n) == {p \in [1..n -> 1..n] : \A i, j \in 1..n : i # j => p[i] # p[j]}

\* the frame walked in the order it has
sort_values_skipped(d) == {d}

\* df.sort_values("date"): kind='quicksort' is not stable, so rows of equal
\* date may come out in any order
sort_values(d) ==
    {s \in {[i \in 1..Len(d) |-> d[p[i]]] : p \in Perms(Len(d))} :
        \A i \in 1..(Len(s) - 1) : DateLeq(s[i].date, s[i + 1].date)}

----------------------------------------------------------------------------
(* Strings                                                                 *)

UpperAlphabet == "ABCDEFGHIJKLMNOPQRSTUVWXYZ"
LowerAlphabet == "abcdefghijklmnopqrstuvwxyz"

\* the lower-case letter of each upper-case letter
LowerOf ==
    [c \in {SubSeq(UpperAlphabet, i, i) : i \in 1..Len(UpperAlphabet)} |->
        LET i == CHOOSE i \in 1..Len(UpperAlphabet) : SubSeq(UpperAlphabet, i, i) = c
        IN  SubSeq(LowerAlphabet, i, i)]

LowerChar(c) == IF c \in DOMAIN LowerOf THEN LowerOf[c] ELSE c

\* s.lower()
RECURSIVE Lower(_)
Lower(s) == IF s = "" THEN "" ELSE LowerChar(SubSeq(s, 1, 1)) \o Lower(SubSeq(s, 2, Len(s)))

\* s.startswith(p)
StartsWith(s, p) == Len(s) >= Len(p) /\ SubSeq(s, 1, Len(p)) = p

\* s[:n]
Slice(s, n) == SubSeq(s, 1, Min(n, Len(s)))

----------------------------------------------------------------------------
(* Company profile                                                         *)

EmptyProfile ==
    [industry |-> None, sector |-> None, website |-> None, description |-> None,
     country |-> None, exchange |-> None, logo |-> None, cik |-> None]

\* the FMP response carries a record the code can read: a non-empty list
\* whose first element is a dict (anything else returns nothing or raises
\* inside the try)
FmpProfileUsable(r) ==
    /\ Answered(r)
    /\ IsList(r.json)
    /\ r.json.items # <<>>
    /\ IsMap(r.json.items[1])

FmpProfile(p) ==
    [industry |-> Get(p, "industry"), sector |-> Get(p, "sector"),
     website |-> Get(p, "website"), description |-> Get(p, "description"),
     country |-> Get(p, "country"),
     exchange |-> Or(Get(p, "exchangeShortName"), Get(p, "exchange")),
     logo |-> Or(Get(p, "image"), None), cik |-> Get(p, "cik")]

\* the Finnhub response is read: status 200 and a body that is a dict or falsy
FinnhubProfileUsable(r) == Answered(r) /\ IsMap(Or(r.json, Map(<<>>)))

FinnhubProfile(p) ==
    [industry |-> Get(p, "finnhubIndustry"), sector |-> None,
     website |-> Get(p, "weburl"), description |-> None,
     country |-> Get(p, "country"), exchange |-> Get(p, "exchange"),
     logo |-> Get(p, "logo"), cik |-> Get(p, "cik")]

\* Finnhub asked as well for the fields a partial FMP record lacks
fetch_company_profile_merging(symbol, company_name, fmp_key, finnhub_key, fmpNet, finnhubNet) ==
    LET tryFmp == symbol # "" /\ fmp_key # ""
        tryFinnhub == symbol # "" /\ finnhub_key # ""
        fmpCalls == IF tryFmp THEN <<"FMP">> ELSE <<>>
        first == FmpProfile(fmpNet[1].json.items[1])
        second == IF FinnhubProfileUsable(finnhubNet[1])
                  THEN FinnhubProfile(Or(finnhubNet[1].json, Map(<<>>)))
                  ELSE EmptyProfile
        partial == \E f \in DOMAIN first : first[f] = None
    IN  IF tryFmp /\ FmpProfileUsable(fmpNet[1]) /\ ~(partial /\ tryFinnhub)
        THEN [profile |-> first, calls |-> fmpCalls]
        ELSE IF tryFmp /\ FmpProfileUsable(fmpNet[1])
        THEN [profile |-> [f \in DOMAIN first |-> Or(first[f], second[f])],
              calls |-> Append(fmpCalls, "Finnhub")]
        ELSE IF tryFinnhub /\ FinnhubProfileUsable(finnhubNet[1])
        THEN [profile |-> second, calls |-> Append(fmpCalls, "Finnhub")]
        ELSE [profile |-> EmptyProfile,
              calls |-> IF tryFinnhub THEN Append(fmpCalls, "Finnhub") ELSE fmpCalls]

\* profile: the dict returned; calls: the providers requested, in order
fetch_company_profile(symbol, company_name, fmp_key, finnhub_key, fmpNet, finnhubNet) ==
    LET tryFmp == symbol # "" /\ fmp_key # ""
        tryFinnhub == symbol # "" /\ finnhub_key # ""
        fmpCalls == IF tryFmp THEN <<"FMP">> ELSE <<>>
    IN  IF tryFmp /\ FmpProfileUsable(fmpNet[1])
        THEN [profile |-> FmpProfile(fmpNet[1].json.items[1]), calls |-> fmpCalls]
        ELSE IF tryFinnhub /\ FinnhubProfileUsable(finnhubNet[1])
        THEN [profile |-> FinnhubProfile(Or(finnhubNet[1].json, Map(<<>>))),
              calls |-> Append(fmpCalls, "Finnhub")]
        ELSE [profile |-> EmptyProfile,
              calls |-> IF tryFinnhub THEN Append(fmpCalls, "Finnhub") ELSE fmpCalls]

----------------------------------------------------------------------------
(* Valuation multiples                                                     *)

\* a float with two decimals: c hundredths
Dec(c) == [t |-> "dec", c |-> c]

fetch_fmp_enterprise_value(symbol, fmp_key, net) ==
    LET r == net[1]
        data == Or(r.json, List(<<>>))
    IN  IF symbol = "" \/ fmp_key = "" THEN None
        ELSE IF Answered(r) /\ IsList(data) /\ data.items # <<>> /\ IsMap(data.items[1])
        THEN LET latest == data.items[1]
             IN  Or(Or(Get(latest, "enterpriseValue"),
                       Get(latest, "enterpriseValueCalculated")),
                    Get(latest, "marketCap"))
        ELSE None

\* returns data[0] whatever it is
fetch_fmp_key_metrics(symbol, fmp_key, net) ==
    LET r == net[1]
        data == Or(r.json, List(<<>>))
    IN  IF symbol = "" \/ fmp_key = "" THEN Map(<<>>)
        ELSE IF Answered(r) /\ IsList(data) /\ data.items # <<>>
        THEN data.items[1]
        ELSE Map(<<>>)

\* float(v) succeeds
Floatable(v) == v.t = "num"
\* float(v)
Float(v) == v.n

Abs(x) == IF x < 0 THEN -x ELSE x

\* round(a / b, 2) in hundredths, ties to the even hundredth
Round2(a, b) ==
    LET sign == IF (a < 0) = (b < 0) THEN 1 ELSE -1
        n == 100 * Abs(a)
        d == Abs(b)
        q == n \div d
        rem == n % d
        up == 2 * rem > d \/ (2 * rem = d /\ q % 2 = 1)
    IN  sign * (IF up THEN q + 1 ELSE q)

\* 0 returned for a division by zero
safe_div_zero(a, b) ==
    IF a = None \/ b = None THEN None
    ELSE IF ~Floatable(b) THEN None
    ELSE IF Float(b) = 0 THEN Dec(0)
    ELSE IF ~Floatable(a) THEN None
    ELSE Dec(Round2(Float(a), Float(b)))

safe_div(a, b) ==
    IF a = None \/ b = None THEN None
    ELSE IF ~Floatable(b) THEN None
    ELSE IF Float(b) = 0 THEN None
    ELSE IF ~Floatable(a) THEN None
    ELSE Dec(Round2(Float(a), Float(b)))

\* raised: km.get(...) raised AttributeError out of compute_multiples
compute_multiples(symbol, fmp_key, kmNet, evNet) ==
    LET km == fetch_fmp_key_metrics(symbol, fmp_key, kmNet)
        ev == fetch_fmp_enterprise_value(symbol, fmp_key, evNet)
        revenue == Or(Get(km, "revenueTTM"), Get(km, "revenue"))
        ebitda == Or(Get(km, "ebitda"), Get(km, "ebitdaTTM"))
        market_cap == Or(Get(km, "marketCap"), Get(km, "marketCapitalization"))
    IN  IF ~IsMap(km) THEN [raised |-> TRUE]
        ELSE [raised |-> FALSE,
              EV_Revenue |-> safe_div(ev, revenue),
              EV_EBITDA |-> safe_div(ev, ebitda),
              Price_Sales |-> safe_div(market_cap, revenue),
              MarketCap |-> market_cap, RevenueTTM |-> revenue, EBITDA |-> ebitda]

----------------------------------------------------------------------------
(* Sector medians                                                          *)

\* sorted(vals) of numbers, by insertion
RECURSIVE Sorted(_)
Sorted(vals) ==
    IF vals = <<>> THEN <<>>
    ELSE LET rest == Sorted(Tail(vals))
             x == Head(vals)
             k == Cardinality({i \in 1..Len(rest) : rest[i].n < x.n})
         IN  SubSeq(rest, 1, k) \o <<x>> \o SubSeq(rest, k + 1, Len(rest))

\* [v for v in vals if v is not None]
RECURSIVE NotNone(_)
NotNone(vals) ==
    IF vals = <<>> THEN <<>>
    ELSE IF Head(vals) = None THEN NotNone(Tail(vals))
    ELSE <<Head(vals)>> \o NotNone(Tail(vals))

\* the nested median(vals) of fetch_sector_median, on numbers and None
median(vals) ==
    LET s == Sorted(NotNone(vals))
        n == Len(s)
        mid == n \div 2
    IN  IF s = <<>> THEN None
        ELSE IF n % 2 = 1 THEN Dec(100 * s[mid + 1].n)
        ELSE Dec(Round2(s[mid].n + s[mid + 1].n, 2))

\* d.get("sector") and d.get("sector").lower() == sector.lower()
SectorMatches(d, sector) ==
    Truthy(Get(d, "sector")) /\ Lower(Get(d, "sector").s) = Lower(sector)

RECURSIVE SelectRows(_, _)
SelectRows(data, sector) ==
    IF data = <<>> THEN <<>>
    ELSE IF SectorMatches(Head(data), sector)
    THEN <<Head(data)>> \o SelectRows(Tail(data), sector)
    ELSE SelectRows(Tail(data), sector)

\* r.get(a) or r.get(b), for every selected row
MetricColumn(rs, a, b) == [i \in 1..Len(rs) |-> Or(Get(rs[i], a), Get(rs[i], b))]

\* the bulk snapshot can be filtered and its medians taken without raising:
\* a list of dicts, sector labels that are strings (or falsy), metric values
\* that are numbers (or falsy)
BulkReadable(data) ==
    /\ IsList(data)
    /\ \A i \in 1..Len(data.items) :
        LET d == data.items[i]
        IN  /\ IsMap(d)
            /\ Truthy(Get(d, "sector")) => IsStr(Get(d, "sector"))
            /\ \A k \in {"evToRevenue", "evToRevenueMultiple", "evToEbitda",
                         "evToEbitdaMultiple", "priceToSales", "priceToSalesRatio"} :
                Get(d, k).t \in {"null", "num"}

\* sector is the Python value of profile.get("sector"); the result is a dict
fetch_sector_median(sector, fmp_key, net) ==
    LET r == net[1]
        data == Or(r.json, List(<<>>))
    IN  IF ~Truthy(sector) \/ fmp_key = "" THEN Map(<<>>)
        ELSE IF ~Answered(r) \/ ~IsStr(sector) \/ ~BulkReadable(data) THEN Map(<<>>)
        ELSE LET rs == SelectRows(data.items, sector.s)
             IN  IF rs = <<>> THEN Map(<<>>)
                 ELSE Map(<<
                    KV("EV/Revenue_median",
                       median(MetricColumn(rs, "evToRevenue", "evToRevenueMultiple"))),
                    KV("EV/EBITDA_median",
                       median(MetricColumn(rs, "evToEbitda", "evToEbitdaMultiple"))),
                    KV("Price/Sales_median",
                       median(MetricColumn(rs, "priceToSales", "priceToSalesRatio")))>>)

----------------------------------------------------------------------------
(* S-1 extractor and the traversal of its response                         *)

\* company_name and ticker are Python values; the result is r.json() or None
fetch_s1_extracted(secapi_key, endpoint, company_name, ticker, net) ==
    LET r == net[1]
        q == Or(Or(company_name, ticker), Str(""))
    IN  IF secapi_key = "" \/ endpoint = "" THEN None
        ELSE IF ~Truthy(q) THEN None
        ELSE IF r.kind = "http" /\ r.status \in {200, 201} /\ r.json # Invalid
        THEN Or(r.json, None)
        ELSE None

\* len(v) > LongText: the string is collected
LongText == 40

UrlKeys == <<"linkToFilingDetails", "filingUrl", "htmlUrl", "link">>

IsUrl(v) == IsStr(v) /\ StartsWith(v.s, "http")

\* the dict branch's first loop: " " + v for every long string value; a value
\* that is a dict or a list makes txt += recursive_search(v) add a tuple to a
\* str, which raises TypeError
RECURSIVE MapText(_)
MapText(items) ==
    IF items = <<>> THEN ""
    ELSE LET v == Head(items).v
         IN  IF IsStr(v) /\ Len(v.s) > LongText
             THEN (" " \o v.s) \o MapText(Tail(items))
             ELSE MapText(Tail(items))

\* the dict branch's second loop
MapUrl(obj) ==
    IF \E i \in 1..Len(UrlKeys) : HasKey(obj, UrlKeys[i]) /\ IsUrl(Get(obj, UrlKeys[i]))
    THEN Get(obj, UrlKeys[CHOOSE i \in 1..Len(UrlKeys) :
            /\ HasKey(obj, UrlKeys[i]) /\ IsUrl(Get(obj, UrlKeys[i]))
            /\ \A j \in 1..(i - 1) :
                ~(HasKey(obj, UrlKeys[j]) /\ IsUrl(Get(obj, UrlKeys[j])))])
    ELSE None

\* [raised, txt, url]: raised when the TypeError leaves the function
RECURSIVE recursive_search(_)
RECURSIVE ListSearch(_, _)

\* the list branch from item i on, txt being accumulated
ListSearch(items, txt) ==
    IF items = <<>> THEN [raised |-> FALSE, txt |-> txt, url |-> None]
    ELSE LET sub == recursive_search(Head(items))
         IN  IF sub.raised THEN [raised |-> TRUE]
             ELSE IF Truthy(sub.url)
             THEN [raised |-> FALSE, txt |-> txt \o sub.txt, url |-> sub.url]
             ELSE ListSearch(Tail(items), txt \o sub.txt)

recursive_search(obj) ==
    IF IsMap(obj)
    THEN IF \E i \in 1..Len(obj.items) : obj.items[i].v.t \in {"map", "list"}
         THEN [raised |-> TRUE]
         ELSE [raised |-> FALSE, txt |-> MapText(obj.items), url |-> MapUrl(obj)]
    ELSE IF IsList(obj) THEN ListSearch(obj.items, "")
    ELSE [raised |-> FALSE, txt |-> "", url |-> None]

----------------------------------------------------------------------------
(* Display helpers used by the loop                                        *)

\* s.replace(p, "")
RECURSIVE RemoveAll(_, _)
RemoveAll(s, p) ==
    IF Len(s) < Len(p) THEN s
    ELSE IF SubSeq(s, 1, Len(p)) = p THEN RemoveAll(SubSeq(s, Len(p) + 1, Len(s)), p)
    ELSE SubSeq(s, 1, 1) \o RemoveAll(SubSeq(s, 2, Len(s)), p)

\* s.split(c)[0]
RECURSIVE BeforeFirst(_, _)
BeforeFirst(s, c) ==
    IF s = "" \/ SubSeq(s, 1, 1) = c THEN ""
    ELSE SubSeq(s, 1, 1) \o BeforeFirst(SubSeq(s, 2, Len(s)), c)

\* raised: .replace on a truthy value that is no str
clearbit_logo_url(website_or_domain) ==
    IF ~Truthy(website_or_domain) THEN [raised |-> FALSE, url |-> None]
    ELSE IF ~IsStr(website_or_domain) THEN [raised |-> TRUE]
    ELSE [raised |-> FALSE,
          url |-> Str("https://logo.clearbit.com/" \o
                      BeforeFirst(RemoveAll(RemoveAll(website_or_domain.s, "http://"),
                                            "https://"), "/"))]

\* which f-string is returned, and the values it formats
format_price(price, min_p, max_p) ==
    IF Truthy(price) THEN <<"price", price>>
    ELSE IF Truthy(min_p) /\ Truthy(max_p) THEN <<"range", min_p, max_p>>
    ELSE IF Truthy(min_p) /\ ~Truthy(max_p) THEN <<"from", min_p>>
    ELSE IF Truthy(max_p) /\ ~Truthy(min_p) THEN <<"up to", max_p>>
    ELSE <<"none">>

\* the optional Wikipedia summary of lines 410-417
wiki_summary(enabled, company, net) ==
    LET r == net[1]
    IN  IF ~(enabled /\ Truthy(company)) THEN None
        ELSE IF IsStr(company) /\ Answered(r) /\ IsMap(r.json)
        THEN Get(r.json, "extract")
        ELSE None

----------------------------------------------------------------------------
(* Red flags, sector outlook, implied market cap                           *)

\* p in s
Contains(s, p) ==
    \E i \in 1..(Len(s) - Len(p) + 1) : SubSeq(s, i, i + Len(p) - 1) = p

risk_phrases ==
    <<"going concern", "material adverse", "significant doubt", "revenue recognition",
      "related party", "fraud", "suspicious", "substantial doubt">>

\* [p for p in seq if p in s]
RECURSIVE FoundIn(_, _)
FoundIn(seq, s) ==
    IF seq = <<>> THEN <<>>
    ELSE IF Contains(s, Head(seq)) THEN <<Head(seq)>> \o FoundIn(Tail(seq), s)
    ELSE FoundIn(Tail(seq), s)

\* the valuation flags from the thresholds on, not above them
red_flag_scan_from(text, multiples) ==
    LET tl == Lower(text)
        phrases == IF text # "" THEN FoundIn(risk_phrases, tl) ELSE <<>>
        ev_rev == multiples.EV_Revenue
        price_sales == multiples.Price_Sales
    IN  [i \in 1..Len(phrases) |-> <<"Phrase", phrases[i]>>]
        \o (IF Truthy(ev_rev) /\ ev_rev.c >= 2000
            THEN <<<<"High EV/Revenue", ev_rev>>>> ELSE <<>>)
        \o (IF Truthy(price_sales) /\ price_sales.c >= 3000
            THEN <<<<"High Price/Sales", price_sales>>>> ELSE <<>>)

\* text is a str, multiples the dict of compute_multiples; a flag is the
\* kind of its message and the value the message embeds
red_flag_scan(text, multiples) ==
    LET tl == Lower(text)
        phrases == IF text # "" THEN FoundIn(risk_phrases, tl) ELSE <<>>
        ev_rev == multiples.EV_Revenue
        price_sales == multiples.Price_Sales
    IN  [i \in 1..Len(phrases) |-> <<"Phrase", phrases[i]>>]
        \o (IF Truthy(ev_rev) /\ ev_rev.c > 2000
            THEN <<<<"High EV/Revenue", ev_rev>>>> ELSE <<>>)
        \o (IF Truthy(price_sales) /\ price_sales.c > 3000
            THEN <<<<"High Price/Sales", price_sales>>>> ELSE <<>>)

\* the keys of TAM_CAGR_MAP in insertion order
TamKeys == <<"cybersecurity", "ai", "biotechnology", "renewable energy", "fintech">>

TAM_CAGR_MAP(k) ==
    CASE k = "cybersecurity" ->
            [tam |-> "Global cybersecurity market ~200B (2024 est.)",
             cagr |-> "~12% CAGR to 2030",
             sources |-> <<[title |-> "Grand View Research",
                 url |-> "https://www.grandviewresearch.com/industry-analysis/cyber-security-market"]>>]
      [] k = "ai" ->
            [tam |-> "AI software segments vary; generative AI segments show very fast growth",
             cagr |-> "~30%+ CAGR for some generative AI subsegments",
             sources |-> <<[title |-> "MarketsandMarkets",
                            url |-> "https://www.marketsandmarkets.com/"]>>]
      [] k = "biotechnology" ->
            [tam |-> "Broad biotech market >$900B",
             cagr |-> "~7-10% depending on subsegment",
             sources |-> <<[title |-> "Fortune Business Insights",
                            url |-> "https://www.fortunebusinessinsights.com/"]>>]
      [] k = "renewable energy" ->
            [tam |-> "Renewable energy market large and growing",
             cagr |-> "~8-10% for many subsegments",
             sources |-> <<[title |-> "IEA", url |-> "https://www.iea.org/"]>>]
      [] k = "fintech" ->
            [tam |-> "Fintech sizable; payments/lending subsegments large",
             cagr |-> "~20% for some fintech segments",
             sources |-> <<[title |-> "Statista", url |-> "https://www.statista.com/"]>>]

\* the characters urllib.parse.quote leaves as they are
QuoteSafe == UpperAlphabet \o LowerAlphabet \o "0123456789" \o "_.-~/"

\* the percent-encoding of the other ASCII characters the model's strings use
QuoteChar(c) ==
    IF Contains(QuoteSafe, c) THEN c
    ELSE CASE c = " " -> "%20"
           [] c = "&" -> "%26"
           [] c = "," -> "%2C"
           [] c = ";" -> "%3B"
           [] c = "'" -> "%27"
           [] OTHER -> "%3F"

\* quote(s)
RECURSIVE quote(_)
quote(s) == IF s = "" THEN "" ELSE QuoteChar(SubSeq(s, 1, 1)) \o quote(SubSeq(s, 2, Len(s)))

\* the last keyword of the table found in the input, not the first
get_tam_cagr_last(sector_or_industry) ==
    LET term == Or(sector_or_industry, Str("")).s
        key == Lower(term)
        hits == FoundIn(TamKeys, key)
    IN  IF hits # <<>> THEN TAM_CAGR_MAP(hits[Len(hits)])
        ELSE [tam |-> "No curated TAM available for this sector in the local mapping.",
              cagr |-> "Unknown",
              sources |-> <<[title |-> "Search results",
                             url |-> "https://www.google.com/search?q="
                                     \o quote("market size " \o term)]>>]

\* sector_or_industry is a str or None
get_tam_cagr(sector_or_industry) ==
    LET term == Or(sector_or_industry, Str("")).s
        key == Lower(term)
        hits == FoundIn(TamKeys, key)
    IN  IF hits # <<>> THEN TAM_CAGR_MAP(hits[1])
        ELSE [tam |-> "No curated TAM available for this sector in the local mapping.",
              cagr |-> "Unknown",
              sources |-> <<[title |-> "Search results",
                             url |-> "https://www.google.com/search?q="
                                     \o quote("market size " \o term)]>>]

Digits == "0123456789"
DigitValue(c) == (CHOOSE i \in 1..Len(Digits) : SubSeq(Digits, i, i) = c) - 1

\* re.sub(r'[^\d]', '', s)
RECURSIVE OnlyDigits(_)
OnlyDigits(s) ==
    IF s = "" THEN ""
    ELSE (IF Contains(Digits, SubSeq(s, 1, 1)) THEN SubSeq(s, 1, 1) ELSE "")
         \o OnlyDigits(SubSeq(s, 2, Len(s)))

\* int(s) of a string of digits
RECURSIVE ParseInt(_)
ParseInt(s) ==
    IF s = "" THEN 0
    ELSE 10 * ParseInt(SubSeq(s, 1, Len(s) - 1)) + DigitValue(SubSeq(s, Len(s), Len(s)))

\* float(v) in hundredths for a number; a str of digits parses, another str,
\* a list or a dict raises (None of the result), nan stays nan
FloatOf(v) ==
    CASE v.t = "num" -> Dec(100 * v.n)
      [] v.t = "dec" -> v
      [] v.t = "nan" -> NaN
      [] v.t = "str" /\ v.s # "" /\ OnlyDigits(v.s) = v.s -> Dec(100 * ParseInt(v.s))
      [] OTHER -> None

\* lines 474-493 on the row r of the frame
implied_marketcap(r) ==
    LET shares0 == Or(r.shares, Num(0))
        shares_raw == IF IsStr(shares0)
                      THEN Num(ParseInt(OnlyDigits(shares0.s)))
                      ELSE shares0
        lo == FloatOf(r.price_min)
        hi == FloatOf(r.price_max)
        price_val ==
            IF Truthy(r.price) THEN FloatOf(r.price)
            ELSE IF Truthy(r.price_min) /\ Truthy(r.price_max)
            THEN (IF lo = None \/ hi = None THEN None
                  ELSE IF lo = NaN \/ hi = NaN THEN NaN
                  ELSE Dec((lo.c + hi.c) \div 2))
            ELSE None
    IN  IF ~(Truthy(price_val) /\ Truthy(shares_raw)) THEN None
        ELSE IF price_val = NaN \/ shares_raw = NaN THEN NaN
        ELSE IF shares_raw.t = "num" THEN Dec(price_val.c * shares_raw.n)
        ELSE None

----------------------------------------------------------------------------
(* The text of the filing: underwriters, lock-up, backers                  *)

TOP_UNDERWRITERS ==
    <<"Goldman Sachs", "Morgan Stanley", "J.P. Morgan", "JPMorgan", "Bank of America",
      "Barclays", "Citigroup", "Citi", "Credit Suisse", "UBS", "Deutsche Bank">>
TOP_VCS ==
    <<"Sequoia", "Andreessen Horowitz", "a16z", "Tiger Global", "SoftBank", "Khosla",
      "Benchmark", "Accel", "Founders Fund", "Lightspeed", "Battery Ventures", "NEA",
      "Greylock">>

\* the character of s at i, "" outside s
At(s, i) == IF i >= 1 /\ i <= Len(s) THEN SubSeq(s, i, i) ELSE ""

\* p stands at position i of s
HasAt(s, i, p) == i >= 1 /\ i + Len(p) - 1 <= Len(s) /\ SubSeq(s, i, i + Len(p) - 1) = p

\* \d, \s and \w on one character
IsDigit(c) == c # "" /\ Contains(Digits, c)
IsSpace(c) == c \in {" ", "\t", "\n", "\r"}
IsWord(c) ==
    c # "" /\ (Contains(UpperAlphabet, c) \/ Contains(LowerAlphabet, c)
               \/ Contains(Digits, c) \/ c = "_")

\* the length of the run of digits (of spaces) of s that starts at i
RECURSIVE DigitRun(_, _)
DigitRun(s, i) == IF IsDigit(At(s, i)) THEN 1 + DigitRun(s, i + 1) ELSE 0

RECURSIVE SpaceRun(_, _)
SpaceRun(s, i) == IF IsSpace(At(s, i)) THEN 1 + SpaceRun(s, i + 1) ELSE 0

\* the length of the run of [^\d] that starts at i, counted up to 31
RECURSIVE NonDigitRun(_, _, _)
NonDigitRun(s, i, n) ==
    IF n > 30 \/ At(s, i) = "" \/ IsDigit(At(s, i)) THEN 0
    ELSE 1 + NonDigitRun(s, i + 1, n + 1)

\* the first alternative of alts that stands at i, "" for none
RECURSIVE FirstPrefix(_, _, _)
FirstPrefix(s, i, alts) ==
    IF alts = <<>> THEN ""
    ELSE IF HasAt(s, i, Head(alts)) THEN Head(alts)
    ELSE FirstPrefix(s, i, Tail(alts))

\* [m for m in names if m.lower() in tl]
RECURSIVE FoundInLower(_, _)
FoundInLower(names, tl) ==
    IF names = <<>> THEN <<>>
    ELSE IF Contains(tl, Lower(Head(names)))
    THEN <<Head(names)>> \o FoundInLower(Tail(names), tl)
    ELSE FoundInLower(Tail(names), tl)

\* lines 321-329
underwriter_credibility_score(underwriters_list) ==
    LET matches ==
            SelectSeq(underwriters_list,
                      LAMBDA u : FoundInLower(TOP_UNDERWRITERS, Lower(u)) # <<>>)
    IN  IF underwriters_list = <<>> THEN [score |-> "Unknown", matches |-> <<>>]
        ELSE IF Len(matches) >= 2 THEN [score |-> "High", matches |-> matches]
        ELSE IF Len(matches) = 1 THEN [score |-> "Medium", matches |-> matches]
        ELSE [score |-> "Low", matches |-> underwriters_list]

\* \b w \b at position i of tl, for a w that begins and ends with \w
WordAt(tl, i, w) ==
    HasAt(tl, i, w) /\ ~IsWord(At(tl, i - 1)) /\ ~IsWord(At(tl, i + Len(w)))

\* sorted(S) for a set of str
RECURSIVE SortedStrs(_)
SortedStrs(S) ==
    IF S = {} THEN <<>>
    ELSE LET m == CHOOSE x \in S : \A y \in S : y = x \/ StrLess(x, y)
         IN  <<m>> \o SortedStrs(S \ {m})

\* lines 331-338
detect_vc_backers(text) ==
    IF text = "" THEN <<>>
    ELSE LET tl == Lower(text)
             found == {TOP_VCS[n] : n \in
                        {n \in 1..Len(TOP_VCS) :
                            LET w == Lower(TOP_VCS[n])
                            IN  \E i \in 1..(Len(tl) - Len(w) + 1) : WordAt(tl, i, w)}}
         IN  SortedStrs(found)

\* the alternatives of the unit, in the order of the pattern
LockupUnits == <<"days", "day", "months", "month", "m">>

\* lock[-\s]?up[^\d]{0,30}(\d{1,4})\s*(days|day|months|month|m) matched at
\* position i, re.I: the text before the digits holds no digit, the digits
\* are the whole run, the spaces are the whole run; "group1 group2" or None
LockupAt(text, tl, i) ==
    LET j == IF At(tl, i + 4) = "-" \/ IsSpace(At(tl, i + 4)) THEN i + 5 ELSE i + 4
        k == NonDigitRun(tl, j + 2, 0)
        g == j + 2 + k
        d == DigitRun(tl, g)
        u == g + d + SpaceRun(tl, g + d)
        unit == FirstPrefix(tl, u, LockupUnits)
    IN  IF HasAt(tl, i, "lock") /\ HasAt(tl, j, "up") /\ k <= 30
           /\ d >= 1 /\ d <= 4 /\ unit # ""
        THEN Str(SubSeq(text, g, g + d - 1) \o " " \o SubSeq(text, u, u + Len(unit) - 1))
        ELSE None

\* (\d{2,4})\s*days matched at position i, re.I
DaysAt(tl, i) ==
    LET d == DigitRun(tl, i)
    IN  d >= 2 /\ d <= 4 /\ HasAt(tl, i + d + SpaceRun(tl, i + d), "days")

\* the least element of a non-empty set of numbers
Least(S) == CHOOSE x \in S : \A y \in S : x <= y

\* lines 340-349; re.search returns the leftmost match
parse_lockup(text) ==
    IF text = "" THEN None
    ELSE LET tl == Lower(text)
             m == {i \in 1..Len(text) : HasAt(tl, i, "lock") /\ LockupAt(text, tl, i) # None}
             m2 == {i \in 1..Len(text) : DaysAt(tl, i)}
         IN  IF m # {} THEN LockupAt(text, tl, Least(m))
             ELSE IF m2 # {}
             THEN Str(SubSeq(text, Least(m2), Least(m2) + DigitRun(tl, Least(m2)) - 1)
                      \o " days")
             ELSE None

\* [\w\s,&\-\.] on one character
IsNameChar(c) == IsWord(c) \/ IsSpace(c) \/ c \in {",", "&", "-", "."}

\* the length of the run of [\w\s,&\-\.] that starts at i, counted up to 80
RECURSIVE NameRun(_, _, _)
NameRun(s, i, n) ==
    IF n >= 80 \/ ~IsNameChar(At(s, i)) THEN 0 ELSE 1 + NameRun(s, i + 1, n + 1)

\* the alternatives of the suffix, in the order of the pattern
FirmSuffixes ==
    <<"LLC", "Co.", "Inc.", "Bank", "Securities", "Capital", "Bancorp", "Corporation",
      "Corp.", "Group">>

\* the pattern of line 459 matched at position i: the position of the last
\* character of the match (the longest run first), 0 for no match
FirmEnd(text, i) ==
    LET run == NameRun(text, i + 1, 0)
        ns == {n \in 2..run :
                /\ At(text, i + n + 1) = " "
                /\ FirstPrefix(text, i + n + 2, FirmSuffixes) # ""}
        n == CHOOSE x \in ns : \A y \in ns : y <= x
    IN  IF At(text, i) # "" /\ Contains(UpperAlphabet, At(text, i)) /\ ns # {}
        THEN i + n + 1 + Len(FirstPrefix(text, i + n + 2, FirmSuffixes))
        ELSE 0

\* line 459: re.findall, the matches from left to right without overlap
RECURSIVE uw_matches(_, _)
uw_matches(text, from) ==
    IF from > Len(text) THEN <<>>
    ELSE LET e == FirmEnd(text, from)
         IN  IF e > 0 THEN <<SubSeq(text, from, e)>> \o uw_matches(text, e + 1)
             ELSE uw_matches(text, from + 1)

\* list(dict.fromkeys(seq))
RECURSIVE FromKeys(_)
FromKeys(seq) ==
    IF seq = <<>> THEN <<>>
    ELSE LET front == FromKeys(SubSeq(seq, 1, Len(seq) - 1))
             last == seq[Len(seq)]
         IN  IF \E i \in 1..Len(front) : front[i] = last THEN front
             ELSE Append(front, last)

\* the matches of the pattern before the known names
underwriters_pattern_first(combined_text) ==
    LET uw_detected == FoundInLower(TOP_UNDERWRITERS, Lower(combined_text))
        found == FromKeys(uw_matches(combined_text, 1))
    IN  IF found # <<>> THEN SubSeq(found, 1, Min(6, Len(found)))
        ELSE uw_detected

\* lines 459-465: the known names the text holds, else the first six
\* distinct matches of the pattern, else the default of line 426
underwriters(combined_text) ==
    LET uw_detected == FoundInLower(TOP_UNDERWRITERS, Lower(combined_text))
        found == FromKeys(uw_matches(combined_text, 1))
    IN  IF uw_detected # <<>> THEN uw_detected
        ELSE SubSeq(found, 1, Min(6, Len(found)))

\* lines 425-471: the signals parsed from s1_extracted; when it is falsy or
\* the traversal raises (the except of line 470) the defaults of lines
\* 425-429 stay
s1_signals(s1_extracted) ==
    LET found == recursive_search(s1_extracted)
    IN  IF Truthy(s1_extracted) /\ ~found.raised
        THEN [combined_text |-> found.txt, s1_url |-> found.url,
              underwriters |-> underwriters(found.txt),
              lockup |-> parse_lockup(found.txt),
              vc_backers |-> detect_vc_backers(found.txt)]
        ELSE [combined_text |-> "", s1_url |-> None, underwriters |-> <<>>,
              lockup |-> None, vc_backers |-> <<>>]

----------------------------------------------------------------------------
(* The responses the run may meet                                          *)

\* the hardcoded keys and endpoint of lines 39-46 (all non-empty)
FMP_API_KEY == "fmp-key"
FINNHUB_API_KEY == "finnhub-key"
SECAPI_KEY == "secapi-key"
SECAPI_S1_EXTRACTOR_ENDPOINT == "https://api.sec-api.io/form-s1-424b4"

\* the network gives at most MaxFaults responses other than the nominal one
\* to the enrichment calls of a run
MaxFaults == 1

FmpA == Map(<<KV("date", Str("2024-05-02")), KV("company", Str("Acme")),
              KV("symbol", Str("ACME")), KV("exchange", Str("NASDAQ")),
              KV("price", Num(20)), KV("shares", Num(1000))>>)
FmpB == Map(<<KV("date", Str("2024-05-01")), KV("company", Str("Beta")),
              KV("symbol", None), KV("priceRangeLow", Num(18)),
              KV("priceRangeHigh", Num(22)), KV("shares", None)>>)
FmpC == Map(<<KV("date", None), KV("company", Str("Coda")),
              KV("symbol", Str("CODA")), KV("price", None)>>)
\* the Finnhub listing of the IPO of FmpA
FinnhubA == Map(<<KV("date", Str("2024-05-02")), KV("name", Str("Acme")),
                  KV("symbol", Str("ACME")), KV("exchange", Str("NASDAQ")),
                  KV("price", Num(20)), KV("numberOfShares", Num(1000))>>)

CalendarFmpNets ==
    {<<Timeout>>, <<Http(500, Invalid)>>, <<Http(200, List(<<>>))>>,
     <<Http(200, List(<<FmpB>>))>>, <<Http(200, List(<<FmpA, FmpA>>))>>,
     <<Http(200, List(<<FmpA, FmpB>>))>>, <<Http(200, List(<<FmpC, FmpA>>))>>}

CalendarFinnhubNets ==
    {<<Transport>>, <<Http(200, Map(<<KV("ipoCalendar", List(<<FinnhubA>>))>>))>>,
     <<Http(200, Map(<<KV("data", List(<<FinnhubA, FinnhubA>>))>>))>>}

NominalFmpProfile ==
    <<Http(200, List(<<Map(<<
        KV("industry", Str("Software")), KV("sector", Str("Technology")),
        KV("website", Str("https://acme.example/ir")),
        KV("description", Str("Acme sells anvils; a related party supplies the iron.")),
        KV("country", Str("US")), KV("exchangeShortName", Str("NASDAQ")),
        KV("image", None), KV("cik", Str("0001"))>>)>>))>>
ProfileFmpNets == {NominalFmpProfile, <<Timeout>>, <<Http(200, List(<<>>))>>}

NominalFinnhubProfile ==
    <<Http(200, Map(<<KV("finnhubIndustry", Str("Fintech")),
                      KV("weburl", Str("http://acme.example")),
                      KV("country", Str("US")), KV("logo", Str("http://l.example/a.png"))>>))>>
ProfileFinnhubNets == {NominalFinnhubProfile, <<Http(429, Invalid)>>}

NominalWiki == <<Http(200, Map(<<KV("extract", Str("Acme is a company."))>>))>>
WikiNets == {NominalWiki, <<Http(404, Map(<<>>))>>}

NominalKeyMetrics ==
    <<Http(200, List(<<Map(<<KV("revenueTTM", Num(10)), KV("ebitda", Num(4)),
                             KV("marketCap", Num(400))>>)>>))>>
\* the last one is a list whose first element is no object
KeyMetricsNets == {NominalKeyMetrics, <<Transport>>, <<Http(200, List(<<None>>))>>}

NominalEnterpriseValue == <<Http(200, List(<<Map(<<KV("enterpriseValue", Num(300))>>)>>))>>
EnterpriseValueNets == {NominalEnterpriseValue, <<Http(200, List(<<None>>))>>}

NominalBulk ==
    <<Http(200, List(<<
        Map(<<KV("sector", Str("technology")), KV("evToRevenue", Num(10)),
              KV("evToEbitda", Num(8)), KV("priceToSales", Num(3))>>),
        Map(<<KV("sector", Str("Energy")), KV("evToRevenue", Num(2))>>),
        Map(<<KV("sector", Str("TECHNOLOGY")), KV("evToRevenueMultiple", Num(20)),
              KV("priceToSalesRatio", Num(6))>>)>>))>>
BulkNets == {NominalBulk, <<Timeout>>}

FilingText ==
    "Goldman Sachs is the lead underwriter. Lock-up of 180 days. There is substantial doubt."
NominalFiling ==
    <<Http(200, List(<<Map(<<KV("id", Str("f1")), KV("text", Str(FilingText)),
                             KV("linkToFilingDetails", Str("https://sec.example/f1"))>>)>>))>>
\* the second one nests a list in a dict, as {"total": ..., "data": [...]} does
FilingNets ==
    {NominalFiling,
     <<Http(200, Map(<<KV("data", List(<<Map(<<KV("text", Str(FilingText))>>)>>))>>))>>,
     <<Timeout>>}

\* 0 for a response that was not requested or is the nominal one
Deviation(requested, net, nominal) == IF requested /\ net # nominal THEN 1 ELSE 0

----------------------------------------------------------------------------
(* The run of the script, lines 389-525                                    *)

\* the loop body's locals before the first assignment
NoCur ==
    [symbol |-> "", profile |-> EmptyProfile, summary |-> None, logo |-> None,
     price_str |-> <<>>, multiples |-> [raised |-> FALSE], sector_med |-> Map(<<>>),
     s1_extracted |-> None, combined_text |-> "", underwriters |-> <<>>,
     lockup |-> None, vc_backers |-> <<>>, s1_url |-> None,
     implied_marketcap |-> None, flags |-> <<>>, record |-> None]

\* the stages of the loop body in the order of the script's text
ScriptOrder ==
    <<"profile", "valuation", "sector_median", "filing", "red_flags", "outlook", "append">>

\* the sector median looked up before the valuation multiples
AfterSwapped(s) ==
    CASE s = "profile" -> "sector_median"
      [] s = "sector_median" -> "valuation"
      [] s = "valuation" -> "filing"
      [] OTHER -> ScriptOrder[(CHOOSE i \in 1..Len(ScriptOrder) : ScriptOrder[i] = s) + 1]

\* the position that follows stage s
After(s) == ScriptOrder[(CHOOSE i \in 1..Len(ScriptOrder) : ScriptOrder[i] = s) + 1]

Init ==
    /\ pc = "fetch_fmp"
    /\ rows = <<>>
    /\ df = <<>>
    /\ order = <<>>
    /\ idx = 0
    /\ cur = NoCur
    /\ enriched = <<>>
    /\ emptySignal = FALSE
    /\ watchlist = [present |-> FALSE, items |-> <<>>]
    /\ faults = 0
    /\ stages = <<>>
    /\ use_wiki \in BOOLEAN
    /\ fnIn = [fn |-> "none"]
    /\ fnOut = [fn |-> "none"]

\* line 393
FetchFmpIpo ==
    /\ pc = "fetch_fmp"
    /\ \E net \in CalendarFmpNets : rows' = rows \o fetch_fmp_ipo(net).rows
    /\ pc' = "fetch_finnhub"
    /\ UNCHANGED <<df, order, idx, cur, enriched, emptySignal, watchlist, faults,
                   stages, use_wiki, fnIn, fnOut>>

\* line 394
FetchFinnhubIpo ==
    /\ pc = "fetch_finnhub"
    /\ \E net \in CalendarFinnhubNets :
        rows' = rows \o fetch_finnhub_ipo(FINNHUB_API_KEY, net).rows
    /\ pc' = "dedup"
    /\ UNCHANGED <<df, order, idx, cur, enriched, emptySignal, watchlist, faults,
                   stages, use_wiki, fnIn, fnOut>>

\* the empty frame is let through to the loop, which then emits no record
DropDuplicatesSilent ==
    /\ pc = "dedup"
    /\ df' = drop_duplicates(DataFrame(rows))
    /\ emptySignal' = FALSE
    /\ pc' = IF df' = <<>> THEN "done" ELSE "loop"
    /\ UNCHANGED <<rows, order, idx, cur, enriched, watchlist, faults, stages,
                   use_wiki, fnIn, fnOut>>

\* lines 395-399: the frame, and st.info / st.stop when it is empty
DropDuplicates ==
    /\ pc = "dedup"
    /\ df' = drop_duplicates(DataFrame(rows))
    /\ emptySignal' = (df' = <<>>)
    /\ pc' = IF df' = <<>> THEN "stopped" ELSE "loop"
    /\ UNCHANGED <<rows, order, idx, cur, enriched, watchlist, faults, stages,
                   use_wiki, fnIn, fnOut>>

\* lines 401-406: the watchlist of the session, enriched = [], the sorted frame
StartLoop ==
    /\ pc = "loop"
    /\ watchlist' = IF watchlist.present THEN watchlist
                    ELSE [present |-> TRUE, items |-> <<>>]
    /\ enriched' = <<>>
    /\ order' \in sort_values(df)
    /\ idx' = 1
    /\ cur' = NoCur
    /\ stages' = <<>>
    /\ pc' = ScriptOrder[1]
    /\ UNCHANGED <<rows, df, emptySignal, faults, use_wiki, fnIn, fnOut>>

\* lines 407-419: symbol, profile, summary, logo, price_str
ProfileLookup ==
    /\ pc = "profile"
    /\ \E fmpNet \in ProfileFmpNets, finnhubNet \in ProfileFinnhubNets, wikiNet \in WikiNets :
        LET r == order[idx]
            symbol == Slice(Or(r.symbol, Str("")).s, 30)
            got == fetch_company_profile(symbol, r.company, FMP_API_KEY,
                                         FINNHUB_API_KEY, fmpNet, finnhubNet)
            askedFmp == \E i \in 1..Len(got.calls) : got.calls[i] = "FMP"
            askedFinnhub == \E i \in 1..Len(got.calls) : got.calls[i] = "Finnhub"
            askedWiki == use_wiki /\ Truthy(r.company)
            clearbit == clearbit_logo_url(got.profile.website)
            logo == IF Truthy(got.profile.logo) THEN got.profile.logo ELSE clearbit.url
        IN  /\ ~askedFmp => fmpNet = NominalFmpProfile
            /\ ~askedFinnhub => finnhubNet = NominalFinnhubProfile
            /\ ~askedWiki => wikiNet = NominalWiki
            /\ faults' = faults + Deviation(askedFmp, fmpNet, NominalFmpProfile)
                                + Deviation(askedFinnhub, finnhubNet, NominalFinnhubProfile)
                                + Deviation(askedWiki, wikiNet, NominalWiki)
            /\ faults' <= MaxFaults
            /\ IF ~Truthy(got.profile.logo) /\ clearbit.raised
               THEN /\ pc' = "crashed"
                    /\ UNCHANGED cur
               ELSE /\ pc' = After("profile")
                    /\ cur' = [NoCur EXCEPT
                                !.symbol = symbol,
                                !.profile = got.profile,
                                !.summary = wiki_summary(use_wiki, r.company, wikiNet),
                                !.logo = logo,
                                !.price_str = format_price(r.price, r.price_min, r.price_max)]
    /\ stages' = Append(stages, "profile")
    /\ UNCHANGED <<rows, df, order, idx, enriched, emptySignal, watchlist, use_wiki,
                   fnIn, fnOut>>

\* line 420; an exception out of compute_multiples ends the script
ValuationMultiples ==
    /\ pc = "valuation"
    /\ \E kmNet \in KeyMetricsNets, evNet \in EnterpriseValueNets :
        LET asked == cur.symbol # "" /\ FMP_API_KEY # ""
            got == compute_multiples(cur.symbol, FMP_API_KEY, kmNet, evNet)
        IN  /\ ~asked => (kmNet = NominalKeyMetrics /\ evNet = NominalEnterpriseValue)
            /\ faults' = faults + Deviation(asked, kmNet, NominalKeyMetrics)
                                + Deviation(asked, evNet, NominalEnterpriseValue)
            /\ faults' <= MaxFaults
            /\ pc' = IF got.raised THEN "crashed" ELSE After("valuation")
            /\ cur' = [cur EXCEPT !.multiples = got]
    /\ stages' = Append(stages, "valuation")
    /\ UNCHANGED <<rows, df, order, idx, enriched, emptySignal, watchlist, use_wiki,
                   fnIn, fnOut>>

\* line 421
SectorMedian ==
    /\ pc = "sector_median"
    /\ \E net \in BulkNets :
        LET asked == Truthy(cur.profile.sector) /\ FMP_API_KEY # ""
        IN  /\ ~asked => net = NominalBulk
            /\ faults' = faults + Deviation(asked, net, NominalBulk)
            /\ faults' <= MaxFaults
            /\ cur' = [cur EXCEPT !.sector_med =
                        IF Truthy(cur.profile.sector)
                        THEN fetch_sector_median(cur.profile.sector, FMP_API_KEY, net)
                        ELSE Map(<<>>)]
    /\ pc' = After("sector_median")
    /\ stages' = Append(stages, "sector_median")
    /\ UNCHANGED <<rows, df, order, idx, enriched, emptySignal, watchlist, use_wiki,
                   fnIn, fnOut>>

\* lines 423-471; the except of line 470 leaves the defaults of lines 425-429
FilingExtraction ==
    /\ pc = "filing"
    /\ \E net \in FilingNets :
        LET r == order[idx]
            asked == Truthy(Or(Or(r.company, Str(cur.symbol)), Str("")))
            s1_extracted == fetch_s1_extracted(SECAPI_KEY, SECAPI_S1_EXTRACTOR_ENDPOINT,
                                               r.company, Str(cur.symbol), net)
            sig == s1_signals(s1_extracted)
        IN  /\ ~asked => net = NominalFiling
            /\ faults' = faults + Deviation(asked, net, NominalFiling)
            /\ faults' <= MaxFaults
            /\ cur' = [cur EXCEPT !.s1_extracted = s1_extracted,
                                  !.combined_text = sig.combined_text,
                                  !.s1_url = sig.s1_url,
                                  !.underwriters = sig.underwriters,
                                  !.lockup = sig.lockup,
                                  !.vc_backers = sig.vc_backers]
    /\ pc' = After("filing")
    /\ stages' = Append(stages, "filing")
    /\ UNCHANGED <<rows, df, order, idx, enriched, emptySignal, watchlist, use_wiki,
                   fnIn, fnOut>>

\* the phrases are looked for in the filing's text only
RedFlagsFilingOnly ==
    /\ pc = "red_flags"
    /\ cur' = [cur EXCEPT
                !.implied_marketcap = implied_marketcap(order[idx]),
                !.flags = red_flag_scan(cur.combined_text, cur.multiples)]
    /\ pc' = After("red_flags")
    /\ stages' = Append(stages, "red_flags")
    /\ UNCHANGED <<rows, df, order, idx, enriched, emptySignal, watchlist, faults,
                   use_wiki, fnIn, fnOut>>

\* lines 473-496: the implied market cap and the red flags
RedFlags ==
    /\ pc = "red_flags"
    /\ cur' = [cur EXCEPT
                !.implied_marketcap = implied_marketcap(order[idx]),
                !.flags = red_flag_scan(
                    IF cur.combined_text # "" THEN cur.combined_text
                    ELSE Or(cur.profile.description, Str("")).s,
                    cur.multiples)]
    /\ pc' = After("red_flags")
    /\ stages' = Append(stages, "red_flags")
    /\ UNCHANGED <<rows, df, order, idx, enriched, emptySignal, watchlist, faults,
                   use_wiki, fnIn, fnOut>>

\* lines 498-523, the dict literal: get_tam_cagr is called while it is built
Outlook ==
    /\ pc = "outlook"
    /\ LET r == order[idx]
       IN  cur' = [cur EXCEPT !.record =
                [Date |-> r.date, Company |-> r.company,
                 Symbol |-> IF cur.symbol # "" THEN cur.symbol ELSE "TBD",
                 Exchange |-> r.exchange, Projected_Price |-> cur.price_str,
                 Shares |-> r.shares, Industry |-> cur.profile.industry,
                 Sector |-> cur.profile.sector, Country |-> cur.profile.country,
                 Website |-> cur.profile.website,
                 Summary |-> Or(cur.summary, cur.profile.description),
                 LogoURL |-> cur.logo, Source |-> r.source,
                 Multiples |-> cur.multiples, SectorMedian |-> cur.sector_med,
                 S1_extracted |-> cur.s1_extracted, S1_url |-> cur.s1_url,
                 Underwriters |-> cur.underwriters,
                 UnderwriterCred |-> underwriter_credibility_score(cur.underwriters),
                 Lockup |-> cur.lockup, VC_backers |-> cur.vc_backers,
                 ImpliedMarketCap |-> cur.implied_marketcap,
                 RedFlags |-> cur.flags,
                 TAM |-> get_tam_cagr(Or(cur.profile.sector, cur.profile.industry))]]
    /\ pc' = After("outlook")
    /\ stages' = Append(stages, "outlook")
    /\ UNCHANGED <<rows, df, order, idx, enriched, emptySignal, watchlist, faults,
                   use_wiki, fnIn, fnOut>>

\* line 498, enriched.append(...), and the loop's step to the next row
AppendRecord ==
    /\ pc = "append"
    /\ enriched' = Append(enriched, cur.record)
    /\ cur' = NoCur
    /\ stages' = <<>>
    /\ idx' = idx + 1
    /\ pc' = IF idx = Len(order) THEN "done" ELSE ScriptOrder[1]
    /\ UNCHANGED <<rows, df, order, emptySignal, watchlist, faults, use_wiki, fnIn, fnOut>>

Next ==
    \/ FetchFmpIpo
    \/ FetchFinnhubIpo
    \/ DropDuplicates
    \/ StartLoop
    \/ ProfileLookup
    \/ ValuationMultiples
    \/ SectorMedian
    \/ FilingExtraction
    \/ RedFlags
    \/ Outlook
    \/ AppendRecord

Spec == Init /\ [][Next]_vars

----------------------------------------------------------------------------
(* The session: company cards, "Add to Watchlist", reruns                  *)

\* the session is followed until the watchlist holds this many entries
MaxWatch == 2

\* ed = pd.DataFrame(enriched), line 525: the ImpliedMarketCap of row i; a
\* None becomes nan when the column holds a float in another row
EdImpliedMarketCap(i) ==
    IF /\ enriched[i].ImpliedMarketCap = None
       /\ \E j \in 1..Len(enriched) : enriched[j].ImpliedMarketCap # None
    THEN NaN ELSE enriched[i].ImpliedMarketCap

\* lines 641-646: the dict appended for the card of row i
WatchEntry(i) ==
    [Company |-> enriched[i].Company, Symbol |-> enriched[i].Symbol,
     Date |-> enriched[i].Date, ImpliedMarketCap |-> EdImpliedMarketCap(i)]

\* a candidate already in the watchlist is not added again
CompanyCardsUnique ==
    /\ pc = "done"
    /\ \E clicked \in 0..Len(enriched) :
        watchlist' =
            IF clicked = 0 \/ \E n \in 1..Len(watchlist.items) :
                                 watchlist.items[n] = WatchEntry(clicked)
            THEN watchlist
            ELSE [watchlist EXCEPT !.items = Append(@, WatchEntry(clicked))]
    /\ pc' = "shown"
    /\ UNCHANGED <<rows, df, order, idx, cur, enriched, emptySignal, faults, stages,
                   use_wiki, fnIn, fnOut>>

\* lines 542-647, the cards of the page with enable_watchlist on: st.button
\* of line 640 is True for the card whose button started this run, for no
\* card (clicked = 0) when something else started it
CompanyCards ==
    /\ pc = "done"
    /\ \E clicked \in 0..Len(enriched) :
        watchlist' =
            IF clicked = 0 THEN watchlist
            ELSE [watchlist EXCEPT !.items = Append(@, WatchEntry(clicked))]
    /\ pc' = "shown"
    /\ UNCHANGED <<rows, df, order, idx, cur, enriched, emptySignal, faults, stages,
                   use_wiki, fnIn, fnOut>>

\* a widget was used: the script runs again from its first line with the
\* session state kept; the responses that deviate from the nominal ones are
\* followed in the first run of a session
Rerun ==
    /\ pc \in {"shown", "stopped", "crashed"}
    /\ Len(watchlist.items) < MaxWatch
    /\ pc' = "fetch_fmp"
    /\ rows' = <<>>
    /\ df' = <<>>
    /\ order' = <<>>
    /\ idx' = 0
    /\ cur' = NoCur
    /\ enriched' = <<>>
    /\ emptySignal' = FALSE
    /\ stages' = <<>>
    /\ faults' = MaxFaults
    /\ use_wiki' \in BOOLEAN
    /\ UNCHANGED <<watchlist, fnIn, fnOut>>

NextSession ==
    \/ Next
    \/ CompanyCards
    \/ Rerun

SpecSession == Init /\ [][NextSession]_vars

----------------------------------------------------------------------------
(* Properties of the run                                                   *)

\* the script is past line 395
FrameBuilt == pc \notin {"fetch_fmp", "fetch_finnhub", "dedup"}

\* the script is in the body of the loop
InLoop == \E i \in 1..Len(ScriptOrder) : pc = ScriptOrder[i]

\* C2: whatever the fetches return, the loop runs to completion and appends
\* exactly one enriched record per de-duplicated candidate: the script never
\* ends on an exception, and when it is done there are as many records as
\* candidates.
C2_BatchNeverAborts ==
    /\ pc # "crashed"
    /\ pc = "done" => Len(enriched) = Len(df)

\* C3: an empty de-duplicated frame raises the empty-result signal and stops
\* the script before any enrichment step (no stage ran, no record was emitted,
\* no step can follow); a non-empty frame never raises the signal.
C3_EmptySignal ==
    /\ emptySignal <=> (FrameBuilt /\ df = <<>>)
    /\ emptySignal =>
        /\ pc = "stopped"
        /\ enriched = <<>> /\ stages = <<>> /\ cur = NoCur /\ faults = 0
        /\ ~ENABLED Next
    /\ pc = "stopped" => emptySignal

\* C3 witness: the run stopped on the signal after both calendars came back
\* empty
C3_Witness == pc = "stopped" /\ emptySignal /\ rows = <<>>

\* record i of enriched is the enriched form of the frame row r
RecordOf(rec, r) ==
    /\ rec.Date = r.date /\ rec.Company = r.company /\ rec.Source = r.source
    /\ rec.Exchange = r.exchange /\ rec.Shares = r.shares
    /\ rec.Symbol = (IF Truthy(r.symbol) THEN r.symbol.s ELSE "TBD")

\* C4: the enriched records come in ascending order of date (rows without a
\* date last), and once the loop is done they are a permutation of the
\* de-duplicated candidates.
C4_AscendingDates ==
    /\ \A i, j \in 1..Len(enriched) :
        i < j => DateLeq(enriched[i].Date, enriched[j].Date)
    /\ pc = "done" =>
        /\ Len(enriched) = Len(df)
        /\ \E p \in Perms(Len(df)) :
            \A i \in 1..Len(df) : RecordOf(enriched[i], df[p[i]])

\* C4 witness: a finished run of three candidates whose frame was not in
\* date order
C4_Witness ==
    /\ pc = "done" /\ Len(enriched) = 3
    /\ \E i \in 1..2 : ~DateLeq(df[i].date, df[i + 1].date)

\* the stages in the order the specification gives
SixStages ==
    <<"profile", "valuation", "sector_median", "filing", "red_flags", "outlook">>

\* C5: the stages of a candidate run in the order profile, valuation,
\* sector median, filing extraction, red flags, outlook, and no stage of a
\* candidate runs before the records of all earlier candidates are appended.
C5_SequentialStages ==
    /\ Len(stages) <= Len(SixStages)
    /\ stages = SubSeq(SixStages, 1, Len(stages))
    /\ stages # <<>> => Len(enriched) = idx - 1
    /\ InLoop => Len(enriched) = idx - 1

\* C5 witness: the second candidate has run all six stages, the first one's
\* record being appended
C5_Witness == pc = "append" /\ idx = 2 /\ stages = SixStages /\ Len(enriched) = 1

----------------------------------------------------------------------------
(* The helper functions called on their own                                *)

\* the longest list of rows, and of provider items, a call is given
MaxRows == 3
MaxItems == 2

SeqsUpTo(S, n) == UNION {[1..k -> S] : k \in 0..n}

UnitRow(date, company, symbol, source, price) ==
    [source |-> source, date |-> date, company |-> company, symbol |-> symbol,
     exchange |-> None, price |-> price, price_min |-> None, price_max |-> None,
     shares |-> None, status |-> None, deal_type |-> None]

\* one row, and the rows that differ from it in one column
UnitRows ==
    {UnitRow(Str("2024-05-02"), Str("Acme"), Str("ACME"), Str("FMP"), Num(20)),
     UnitRow(None, Str("Acme"), Str("ACME"), Str("FMP"), Num(20)),
     UnitRow(Str("2024-05-02"), Str("Beta"), Str("ACME"), Str("FMP"), Num(20)),
     UnitRow(Str("2024-05-02"), Str("Acme"), None, Str("FMP"), Num(20)),
     UnitRow(Str("2024-05-02"), Str("Acme"), Str("ACME"), Str("Finnhub"), Num(20)),
     UnitRow(Str("2024-05-02"), Str("Acme"), Str("ACME"), Str("FMP"), Num(21))}

\* a Finnhub item under the other names of its fields
FinnhubB == Map(<<KV("date", Str("2024-05-01")), KV("company", Str("Beta")),
                  KV("name", None), KV("symbol", Str("BETA")),
                  KV("priceRangeLow", Num(18)), KV("price_max", Num(22)),
                  KV("shares", Num(500))>>)

FmpBodies ==
    {List(it) : it \in SeqsUpTo({FmpA, FmpB, FmpC}, MaxItems)}
    \cup {None, Invalid, Map(<<KV("Error Message", Str("limit reached"))>>),
          List(<<FmpA, Str("x")>>)}

FinnhubBodies ==
    {Map(<<KV("ipoCalendar", List(it))>>) : it \in SeqsUpTo({FinnhubA, FinnhubB}, MaxItems)}
    \cup {Map(<<KV("ipoCalendar", List(<<>>)), KV("data", List(it))>>) :
            it \in SeqsUpTo({FinnhubA, FinnhubB}, MaxItems)}
    \cup {None, Invalid, Map(<<>>), List(<<FinnhubA>>),
          Map(<<KV("ipoCalendar", Str("none"))>>),
          Map(<<KV("ipoCalendar", List(<<FinnhubA, Num(1)>>))>>)}

\* the first response of a call to a calendar, given the bodies it may carry
CalendarResponses(bodies) ==
    {Transport, Timeout} \cup {Http(st, b) : st \in {200, 500}, b \in bodies}

\* what a second request would be answered
SecondResponses(body) == {Timeout, Http(200, body)}

InitUnits ==
    /\ pc = "units"
    /\ rows = <<>>
    /\ df = <<>>
    /\ order = <<>>
    /\ idx = 0
    /\ cur = NoCur
    /\ enriched = <<>>
    /\ emptySignal = FALSE
    /\ watchlist = [present |-> FALSE, items |-> <<>>]
    /\ faults = 0
    /\ stages = <<>>
    /\ use_wiki = TRUE
    /\ fnIn = [fn |-> "none"]
    /\ fnOut = [fn |-> "none"]

RunVars == <<pc, rows, df, order, idx, cur, enriched, emptySignal, watchlist,
             faults, stages, use_wiki>>

\* line 395 on a list of rows
CallDropDuplicates ==
    /\ fnIn.fn = "none"
    /\ \E rs \in SeqsUpTo(UnitRows, MaxRows) :
        /\ fnIn' = [fn |-> "drop_duplicates", rows |-> rs]
        /\ fnOut' = drop_duplicates(DataFrame(rs))
    /\ UNCHANGED RunVars

CallFetchFmpIpo ==
    /\ fnIn.fn = "none"
    /\ \E first \in CalendarResponses(FmpBodies),
          second \in SecondResponses(List(<<FmpA>>)) :
        /\ fnIn' = [fn |-> "fetch_fmp_ipo", net |-> <<first, second>>]
        /\ fnOut' = fetch_fmp_ipo(<<first, second>>)
    /\ UNCHANGED RunVars

CallFetchFinnhubIpo ==
    /\ fnIn.fn = "none"
    /\ \E token \in {"", FINNHUB_API_KEY},
          first \in CalendarResponses(FinnhubBodies),
          second \in SecondResponses(Map(<<KV("ipoCalendar", List(<<FinnhubA>>))>>)) :
        /\ fnIn' = [fn |-> "fetch_finnhub_ipo", token |-> token, net |-> <<first, second>>]
        /\ fnOut' = fetch_finnhub_ipo(token, <<first, second>>)
    /\ UNCHANGED RunVars

PartialFmpRecord == Map(<<KV("industry", Str("Software")), KV("sector", None)>>)

ProfileFmpResponses ==
    {Transport, Timeout, Http(404, Invalid), Http(200, Invalid), Http(200, None),
     Http(200, List(<<>>)), Http(200, Map(<<KV("Error Message", Str("limit"))>>)),
     Http(200, List(<<Str("x")>>)), Http(200, List(<<Map(<<>>)>>)),
     Http(200, List(<<PartialFmpRecord>>)), NominalFmpProfile[1]}

ProfileFinnhubResponses ==
    {Transport, Timeout, Http(500, Invalid), Http(200, Invalid), Http(200, None),
     Http(200, Map(<<>>)), Http(200, List(<<Str("x")>>)), NominalFinnhubProfile[1]}

CallFetchCompanyProfile ==
    /\ fnIn.fn = "none"
    /\ \E symbol \in {"", "ACME"}, fmp \in ProfileFmpResponses,
          finnhub \in ProfileFinnhubResponses :
        /\ fnIn' = [fn |-> "fetch_company_profile", symbol |-> symbol,
                    fmp |-> fmp, finnhub |-> finnhub]
        /\ fnOut' = fetch_company_profile(symbol, Str("Acme"), FMP_API_KEY,
                                          FINNHUB_API_KEY, <<fmp>>, <<finnhub>>)
    /\ UNCHANGED RunVars

KeyMetricsRecords ==
    {Map(<<KV("revenueTTM", a), KV("revenue", b), KV("ebitda", c), KV("marketCap", d)>>) :
        a \in {None, Num(0), Num(4)}, b \in {None, Num(0), Num(8), Str("n/a")},
        c \in {None, Num(0), Num(-3)}, d \in {None, Num(0), Num(100)}}

EnterpriseValueRecords ==
    {Map(<<KV("enterpriseValue", a), KV("marketCap", b)>>) :
        a \in {None, Num(0), Num(50)}, b \in {None, Num(0), Num(70)}}

CallComputeMultiples ==
    /\ fnIn.fn = "none"
    /\ \E km \in {Timeout, Http(200, List(<<>>)), Http(200, List(<<None>>))}
                 \cup {Http(200, List(<<m>>)) : m \in KeyMetricsRecords},
          ev \in {Transport, Http(200, List(<<Str("x")>>))}
                 \cup {Http(200, List(<<e>>)) : e \in EnterpriseValueRecords} :
        /\ fnIn' = [fn |-> "compute_multiples", km |-> km, ev |-> ev]
        /\ fnOut' = compute_multiples("ACME", FMP_API_KEY, <<km>>, <<ev>>)
    /\ UNCHANGED RunVars

\* the most rows a bulk snapshot holds
MaxBulk == 3

BulkRows ==
    {Map(<<KV("sector", label), KV("evToRevenue", v)>>) :
        label \in {Str("TECH"), Str("Energy")},
        v \in {None, Num(0), Num(10), Num(20), Num(30)}}

CallFetchSectorMedian ==
    /\ fnIn.fn = "none"
    /\ \E data \in SeqsUpTo(BulkRows, MaxBulk) :
        /\ fnIn' = [fn |-> "fetch_sector_median", sector |-> Str("Tech"), data |-> data]
        /\ fnOut' = fetch_sector_median(Str("Tech"), FMP_API_KEY, <<Http(200, List(data))>>)
    /\ UNCHANGED RunVars

\* strings of 41, 45 and 40 characters, a link, a number
Leaves ==
    {Str("The company has a lock-up of 180 days . ."),
     Str("Goldman Sachs and Sequoia back this offering."),
     Str("Forty characters of text, not one more.."),
     Str("https://sec.example/f1"),
     Num(7)}

Level1 ==
    {Map(<<KV("text", x)>>) : x \in Leaves}
    \cup {Map(<<KV("text", x), KV("link", y)>>) : x \in Leaves, y \in Leaves}
    \cup {List(it) : it \in SeqsUpTo(Leaves, 2)}

Level2 ==
    {Map(<<KV("data", c)>>) : c \in Level1}
    \cup {Map(<<KV("text", x), KV("data", c)>>) : x \in Leaves, c \in Level1}
    \cup {List(<<c>>) : c \in Level1}
    \cup {List(<<c, d>>) : c \in Level1, d \in Level1}

\* a dict that holds a list of records, as {"data": [{...}]}
Level3 == {Map(<<KV("data", List(<<c>>))>>) : c \in Level1}

\* lines 454-457: the call of recursive_search in the try
CallRecursiveSearch ==
    /\ fnIn.fn = "none"
    /\ \E obj \in Level1 \cup Level2 \cup Level3 :
        /\ fnIn' = [fn |-> "recursive_search", obj |-> obj]
        /\ fnOut' = recursive_search(obj)
    /\ UNCHANGED RunVars

\* texts that name a lock-up: of 41 characters, of 34, with a unit that
\* only starts with m, with a bare number of days, with none
LockupTexts ==
    {"The company has a lock-up of 180 days . .",
     "Lockup period of 180 days applies.",
     "A lock-up agreement binds the 3 managers of it.",
     "The offering is expected to close in 90 days.",
     "Goldman Sachs and Sequoia back this offering."}

\* the texts as a value of a map, of a map in a map, of a map in a list
S1Structures ==
    {Map(<<KV("text", Str(x))>>) : x \in LockupTexts}
    \cup {Map(<<KV("risk", Map(<<KV("text", Str(x))>>))>>) : x \in LockupTexts}
    \cup {List(<<Map(<<KV("text", Str(x))>>), Map(<<KV("text", Str(y))>>)>>) :
            x \in LockupTexts, y \in LockupTexts}
    \cup {None, Map(<<>>)}

\* lines 423-471 on what fetch_s1_extracted returned
CallS1Signals ==
    /\ fnIn.fn = "none"
    /\ \E obj \in S1Structures :
        /\ fnIn' = [fn |-> "s1_signals", obj |-> obj]
        /\ fnOut' = s1_signals(obj)
    /\ UNCHANGED RunVars

\* combined texts: known names in another order than the roster's (and a
\* match of the pattern), known names in lower case, the offering of the
\* example, eight matches of the pattern of which seven are distinct, no name
UnderwriterTexts ==
    {"Morgan Stanley and Goldman Sachs Group lead the offering.",
     "led by citi and jpmorgan",
     "Goldman Sachs and Sequoia back this offering.",
     "Alpha Capital; Beta Group; Alpha Capital; Gamma Bank; Delta LLC; Eps Corp.; Zeta Inc.; Eta Group",
     "Led by Smith Barney Securities (lead) and Jones & Co. as agents",
     "nobody is named here",
     ""}

\* lines 458-468 on a combined text
CallUnderwriters ==
    /\ fnIn.fn = "none"
    /\ \E text \in UnderwriterTexts :
        /\ fnIn' = [fn |-> "underwriters", text |-> text]
        /\ fnOut' = [underwriters |-> underwriters(text),
                     vc_backers |-> detect_vc_backers(text)]
    /\ UNCHANGED RunVars

\* texts with no phrase, with phrases in capitals, with phrases in another
\* order than the list's, with three phrases
RedFlagTexts ==
    {"", "All is well with the company.",
     "There is a Going Concern warning.",
     "FRAUD was alleged; going concern doubt.",
     "substantial doubt, significant doubt and a related party"}

\* ratios in hundredths: absent, zero, negative, at and above the thresholds
RedFlagRatios ==
    {None, Dec(0), Dec(-500), Dec(2000), Dec(2001), Dec(2500), Dec(3000), Dec(3001)}

CallRedFlagScan ==
    /\ fnIn.fn = "none"
    /\ \E text \in RedFlagTexts, ev_rev \in RedFlagRatios, price_sales \in RedFlagRatios :
        LET multiples == [EV_Revenue |-> ev_rev, Price_Sales |-> price_sales]
        IN  /\ fnIn' = [fn |-> "red_flag_scan", text |-> text, multiples |-> multiples]
            /\ fnOut' = red_flag_scan(text, multiples)
    /\ UNCHANGED RunVars

\* the sector or industry of a profile: absent, empty, with no keyword, with
\* one keyword in capitals, with a keyword inside a word, with two keywords
SectorTerms ==
    {None, Str(""), Str("Widgets"), Str("Oil & Gas"), Str("Enterprise AI Software"),
     Str("Retail"), Str("Biotechnology"), Str("Renewable Energy"),
     Str("Fintech & Cybersecurity"), Str("AI Fintech")}

CallGetTamCagr ==
    /\ fnIn.fn = "none"
    /\ \E sector_or_industry \in SectorTerms :
        /\ fnIn' = [fn |-> "get_tam_cagr", sector_or_industry |-> sector_or_industry]
        /\ fnOut' = get_tam_cagr(sector_or_industry)
    /\ UNCHANGED RunVars

\* a calendar row with the price, the range and the share count given
CapRow(price, price_min, price_max, shares) ==
    [source |-> Str("FMP"), date |-> Str("2024-05-02"), company |-> Str("Acme"),
     symbol |-> Str("ACME"), exchange |-> None, price |-> price,
     price_min |-> price_min, price_max |-> price_max, shares |-> shares,
     status |-> None, deal_type |-> None]

\* the price given or not, the range complete, half or absent, the share
\* count absent, a number or a str with separators
CapRows ==
    {CapRow(price, range[1], range[2], shares) :
        price \in {None, Num(20)},
        range \in {<<None, None>>, <<Num(18), Num(22)>>, <<Num(18), None>>},
        shares \in {None, Num(1000000), Str("1,000,000")}}

\* lines 395 and 406: r is a row of the frame built from the rows
CallImpliedMarketCap ==
    /\ fnIn.fn = "none"
    /\ \E rs \in SeqsUpTo(CapRows, MaxItems) : \E i \in 1..Len(rs) :
        /\ fnIn' = [fn |-> "implied_marketcap", rows |-> rs, i |-> i]
        /\ fnOut' = implied_marketcap(DataFrame(rs)[i])
    /\ UNCHANGED RunVars

NextUnits ==
    \/ CallFetchFmpIpo
    \/ CallFetchFinnhubIpo
    \/ CallFetchCompanyProfile
    \/ CallComputeMultiples
    \/ CallFetchSectorMedian
    \/ CallRecursiveSearch
    \/ CallS1Signals
    \/ CallUnderwriters
    \/ CallRedFlagScan
    \/ CallGetTamCagr
    \/ CallImpliedMarketCap
    \/ CallDropDuplicates

SpecUnits == InitUnits /\ [][NextUnits]_vars

----------------------------------------------------------------------------
(* Properties of the helper functions                                      *)

\* C1: the de-duplicated frame holds, for every (date, company, symbol,
\* source) key of the input, exactly one row, and that row is the first row
\* of the input with the key; it holds no other row; two rows that differ in
\* source only are both kept.
C1_DedupByKey ==
    fnIn.fn = "drop_duplicates" =>
        LET frame == DataFrame(fnIn.rows)
            Key(r) == <<r.date, r.company, r.symbol, r.source>>
        IN  /\ \A j \in 1..Len(frame) :
                Cardinality({i \in 1..Len(fnOut) : Key(fnOut[i]) = Key(frame[j])}) = 1
            /\ \A i \in 1..Len(fnOut) :
                \E j \in 1..Len(frame) :
                    /\ fnOut[i] = frame[j]
                    /\ \A k \in 1..(j - 1) : Key(frame[k]) # Key(frame[j])
            /\ \A j, k \in 1..Len(frame) :
                frame[j].source # frame[k].source =>
                    \E i1, i2 \in 1..Len(fnOut) :
                        /\ i1 # i2
                        /\ Key(fnOut[i1]) = Key(frame[j])
                        /\ Key(fnOut[i2]) = Key(frame[k])

\* C1 witness: of three rows, the third repeats the key of the first with
\* another price and is dropped, the second differs from the first in source
\* only and is kept
C1_Witness ==
    /\ fnIn.fn = "drop_duplicates"
    /\ Len(fnIn.rows) = 3
    /\ fnIn.rows[1].price # fnIn.rows[3].price
    /\ [fnIn.rows[3] EXCEPT !.price = fnIn.rows[1].price] = fnIn.rows[1]
    /\ fnIn.rows[1].source # fnIn.rows[2].source
    /\ [fnIn.rows[2] EXCEPT !.source = fnIn.rows[1].source] = fnIn.rows[1]
    /\ fnOut = <<fnIn.rows[1], fnIn.rows[2]>>

\* the request failed in transport, timed out, or came back with a status
\* other than 200
CalendarFailure(r) == r.kind \in {"transport", "timeout"} \/ r.status # 200

\* the response carries a list of objects under 200
ListOfObjects(v) == v.t = "list" /\ \A i \in 1..Len(v.items) : v.items[i].t = "map"

\* the items of a Finnhub body: ipoCalendar, or data when that is empty
FinnhubItems(body) ==
    IF Truthy(GetDefault(body, "ipoCalendar", List(<<>>)))
    THEN Get(body, "ipoCalendar") ELSE GetDefault(body, "data", List(<<>>))

\* C6: a calendar adapter issues at most one request and never raises; when
\* the request fails (transport, timeout, status other than 200) it returns
\* the empty sequence, whatever a second request would have been answered;
\* when the provider answers with a list of items it returns one normalized
\* row per item, in order.
C6_AdapterOneRequest ==
    /\ fnIn.fn = "fetch_fmp_ipo" =>
        LET r == fnIn.net[1]
        IN  /\ fnOut.requests <= 1 /\ ~fnOut.raised
            /\ CalendarFailure(r) => fnOut.rows = <<>>
            /\ (~CalendarFailure(r) /\ ListOfObjects(r.json)) =>
                /\ Len(fnOut.rows) = Len(r.json.items)
                /\ \A i \in 1..Len(fnOut.rows) :
                    LET it == r.json.items[i]
                        row == fnOut.rows[i]
                    IN  /\ row.source = Str("FMP")
                        /\ row.date = Get(it, "date")
                        /\ row.company = Get(it, "company")
                        /\ row.symbol = Get(it, "symbol")
                        /\ row.price = Get(it, "price")
                        /\ row.price_min = Get(it, "priceRangeLow")
                        /\ row.price_max = Get(it, "priceRangeHigh")
                        /\ row.shares = Get(it, "shares")
    /\ fnIn.fn = "fetch_finnhub_ipo" =>
        LET r == fnIn.net[1]
        IN  /\ fnOut.requests <= 1 /\ ~fnOut.raised
            /\ CalendarFailure(r) => fnOut.rows = <<>>
            /\ (fnIn.token # "" /\ ~CalendarFailure(r) /\ r.json.t = "map"
                    /\ ListOfObjects(FinnhubItems(r.json))) =>
                /\ Len(fnOut.rows) = Len(FinnhubItems(r.json).items)
                /\ \A i \in 1..Len(fnOut.rows) :
                    LET it == FinnhubItems(r.json).items[i]
                        row == fnOut.rows[i]
                    IN  /\ row.source = Str("Finnhub")
                        /\ row.date = Get(it, "date")
                        /\ row.company \in {Get(it, "name"), Get(it, "company")}
                        /\ Truthy(Get(it, "name")) => row.company = Get(it, "name")
                        /\ row.symbol = Get(it, "symbol")
                        /\ row.price = Get(it, "price")
                        /\ row.shares \in {Get(it, "numberOfShares"), Get(it, "shares")}

\* C6 witness: the first request timed out, a second one would have been
\* answered with a listing, and the adapter returned nothing after one request
C6_Witness ==
    /\ fnIn.fn = "fetch_fmp_ipo"
    /\ fnIn.net[1] = Timeout
    /\ Answered(fnIn.net[2])
    /\ fnOut.rows = <<>> /\ fnOut.requests = 1

\* the primary provider answered 200 with a non-empty list headed by a record
PrimaryGaveRecord ==
    /\ fnIn.symbol # ""
    /\ fnIn.fmp.kind = "http" /\ fnIn.fmp.status = 200
    /\ fnIn.fmp.json.t = "list" /\ fnIn.fmp.json.items # <<>>
    /\ fnIn.fmp.json.items[1].t = "map"

\* the secondary provider answered 200 with a record (or an empty body)
SecondaryGaveRecord ==
    /\ fnIn.symbol # ""
    /\ fnIn.finnhub.kind = "http" /\ fnIn.finnhub.status = 200
    /\ fnIn.finnhub.json.t \in {"map", "null"}

\* C7: the primary provider is asked first; a record it returns is final,
\* partial or not, and the secondary provider is then not asked; the
\* secondary is asked only when the primary failed or returned nothing
\* usable, and its record is then the result; all fields are absent when
\* neither gives a record.
C7_PrimaryThenSecondary ==
    fnIn.fn = "fetch_company_profile" =>
        LET calls == fnOut.calls
            p == fnIn.fmp.json.items[1]
            q == fnIn.finnhub.json
        IN  /\ calls \in {<<>>, <<"FMP">>, <<"FMP", "Finnhub">>}
            /\ PrimaryGaveRecord =>
                /\ calls = <<"FMP">>
                /\ fnOut.profile.industry = Get(p, "industry")
                /\ fnOut.profile.sector = Get(p, "sector")
                /\ fnOut.profile.website = Get(p, "website")
                /\ fnOut.profile.description = Get(p, "description")
                /\ fnOut.profile.country = Get(p, "country")
                /\ fnOut.profile.cik = Get(p, "cik")
            /\ (calls = <<"FMP", "Finnhub">>) <=> (fnIn.symbol # "" /\ ~PrimaryGaveRecord)
            /\ (~PrimaryGaveRecord /\ SecondaryGaveRecord /\ q.t = "map") =>
                /\ fnOut.profile.industry = Get(q, "finnhubIndustry")
                /\ fnOut.profile.website = Get(q, "weburl")
                /\ fnOut.profile.logo = Get(q, "logo")
                /\ fnOut.profile.sector = None
            /\ (~PrimaryGaveRecord /\ ~SecondaryGaveRecord) => fnOut.profile = EmptyProfile

\* C7 witness: the primary returned a record without a sector, the secondary
\* had a full record to give, and only the primary was asked
C7_Witness ==
    /\ fnIn.fn = "fetch_company_profile"
    /\ fnIn.fmp = Http(200, List(<<PartialFmpRecord>>))
    /\ fnIn.finnhub = NominalFinnhubProfile[1]
    /\ fnOut.calls = <<"FMP">>
    /\ fnOut.profile.sector = None /\ fnOut.profile.website = None
    /\ fnOut.profile.industry = Str("Software")

\* ratio is num / den as the claim has it: present only for a numerator and
\* a non-zero denominator that are both present, and then the quotient to
\* the nearest hundredth; None for a missing operand or a zero denominator
RatioAsClaimed(ratio, num, den) ==
    /\ ratio # None =>
        /\ num # None /\ den # None /\ den # Num(0)
        /\ ratio.t = "dec" /\ num.t = "num" /\ den.t = "num"
        /\ 2 * Abs(ratio.c * den.n - 100 * num.n) <= Abs(den.n)
    /\ (num = None \/ den = None \/ den = Num(0)) => ratio = None
    /\ (num.t = "num" /\ den.t = "num" /\ den.n # 0) => ratio # None

\* C8: in the dict compute_multiples returns, EV/Revenue, EV/EBITDA and
\* Price/Sales are each present only if numerator and denominator are
\* present and the denominator is not zero; a zero denominator or a missing
\* operand gives None, not zero and not an error; a present ratio is the
\* rounded quotient.
C8_SafeRatios ==
    (fnIn.fn = "compute_multiples" /\ ~fnOut.raised) =>
        LET ev == fetch_fmp_enterprise_value("ACME", FMP_API_KEY, <<fnIn.ev>>)
        IN  /\ RatioAsClaimed(fnOut.EV_Revenue, ev, fnOut.RevenueTTM)
            /\ RatioAsClaimed(fnOut.EV_EBITDA, ev, fnOut.EBITDA)
            /\ RatioAsClaimed(fnOut.Price_Sales, fnOut.MarketCap, fnOut.RevenueTTM)

\* C8 witness: revenue is 0, the enterprise value is 50, EV/Revenue is None
\* while EV/EBITDA is -16.67
C8_Witness ==
    /\ fnIn.fn = "compute_multiples" /\ ~fnOut.raised
    /\ fnOut.RevenueTTM = Num(0)
    /\ fetch_fmp_enterprise_value("ACME", FMP_API_KEY, <<fnIn.ev>>) = Num(50)
    /\ fnOut.EV_Revenue = None
    /\ fnOut.EV_EBITDA = Dec(-1667)

\* the values of metric a (b when a is null) of the rows of the sector
RECURSIVE SectorValues(_, _, _, _)
SectorValues(data, sector, a, b) ==
    IF data = <<>> THEN <<>>
    ELSE LET d == Head(data)
             v == IF Get(d, a) # None THEN Get(d, a) ELSE Get(d, b)
             rest == SectorValues(Tail(data), sector, a, b)
         IN  IF Get(d, "sector").t = "str" /\ Lower(Get(d, "sector").s) = Lower(sector)
                /\ v # None
             THEN <<v>> \o rest ELSE rest

\* the median of a list of numbers, in hundredths; None for no number
MedianOf(vals) ==
    LET srt == Sorted(vals)
        n == Len(srt)
    IN  IF n = 0 THEN None
        ELSE IF n % 2 = 1 THEN Dec(100 * srt[(n + 1) \div 2].n)
        ELSE Dec(50 * (srt[n \div 2].n + srt[n \div 2 + 1].n))

\* C9: the EV/Revenue median fetch_sector_median returns is the median of
\* the non-null EV/Revenue values of the rows whose sector equals the sector
\* asked for, case-insensitively (None when there is no such value).
C9_MedianOfNonNull ==
    fnIn.fn = "fetch_sector_median" =>
        Get(fnOut, "EV/Revenue_median")
            = MedianOf(SectorValues(fnIn.data, fnIn.sector.s,
                                    "evToRevenue", "evToRevenueMultiple"))

\* every string of more than 40 characters of obj, in depth-first order,
\* each after a space
RECURSIVE EveryLongString(_)
RECURSIVE EveryLongStringOf(_)
EveryLongStringOf(values) ==
    IF values = <<>> THEN ""
    ELSE EveryLongString(Head(values)) \o EveryLongStringOf(Tail(values))

EveryLongString(obj) ==
    CASE obj.t = "str" -> IF Len(obj.s) > 40 THEN " " \o obj.s ELSE ""
      [] obj.t = "map" -> EveryLongStringOf([i \in 1..Len(obj.items) |-> obj.items[i].v])
      [] obj.t = "list" -> EveryLongStringOf(obj.items)
      [] OTHER -> ""

\* C10: the combined text of lines 455-456 is the space-joined concatenation,
\* depth-first, of every string longer than 40 characters of the structure,
\* map value or list element, at any depth.
C10_EveryLongString ==
    fnIn.fn = "recursive_search" =>
        (IF fnOut.raised THEN "" ELSE fnOut.txt) = EveryLongString(fnIn.obj)

\* the first recognized URL of obj in depth-first order: the nodes below a
\* map before the map's own keys, the elements of a list in order; None
\* when no map of obj has a recognized key with a string that starts with
\* "http"
RECURSIVE FirstUrl(_)
RECURSIVE FirstUrlOf(_)
FirstUrlOf(values) ==
    IF values = <<>> THEN None
    ELSE LET u == FirstUrl(Head(values))
         IN  IF u # None THEN u ELSE FirstUrlOf(Tail(values))

FirstUrl(obj) ==
    CASE obj.t = "map" ->
            LET below == FirstUrlOf([i \in 1..Len(obj.items) |-> obj.items[i].v])
                own == {i \in 1..Len(UrlKeys) :
                          /\ \E j \in 1..Len(obj.items) : obj.items[j].k = UrlKeys[i]
                          /\ Get(obj, UrlKeys[i]).t = "str"
                          /\ StartsWith(Get(obj, UrlKeys[i]).s, "http")}
            IN  IF below # None THEN below
                ELSE IF own # {} THEN Get(obj, UrlKeys[Least(own)])
                ELSE None
      [] obj.t = "list" -> FirstUrlOf(obj.items)
      [] OTHER -> None

\* C11: the filing URL of lines 455-457 is the first recognized URL key
\* (linkToFilingDetails, filingUrl, htmlUrl, link) with a string value that
\* starts with "http", met depth-first at any map of the structure, and is
\* absent only when the structure holds none.
C11_FirstUrlAnywhere ==
    fnIn.fn = "recursive_search" =>
        (IF fnOut.raised THEN None ELSE fnOut.url) = FirstUrl(fnIn.obj)

\* every string of obj, of any length, in depth-first order
RECURSIVE AllStrings(_)
RECURSIVE AllStringsOf(_)
AllStringsOf(values) ==
    IF values = <<>> THEN <<>>
    ELSE AllStrings(Head(values)) \o AllStringsOf(Tail(values))

AllStrings(obj) ==
    CASE obj.t = "str" -> <<obj.s>>
      [] obj.t = "map" -> AllStringsOf([i \in 1..Len(obj.items) |-> obj.items[i].v])
      [] obj.t = "list" -> AllStringsOf(obj.items)
      [] OTHER -> <<>>

\* the units the lock-up is stated in
StatedUnits == <<"days", "day", "months", "month">>

\* "lockup", hyphenated or spaced or not, at position i of s, then at most
\* 30 characters, then a number and a stated unit: "<number> <unit>", else
\* None
StatedLockupAt(s, i) ==
    LET tl == Lower(s)
        j == IF At(tl, i + 4) = "-" \/ At(tl, i + 4) = " " THEN i + 5 ELSE i + 4
        k == NonDigitRun(tl, j + 2, 0)
        g == j + 2 + k
        d == DigitRun(tl, g)
        u == g + d + SpaceRun(tl, g + d)
        unit == FirstPrefix(tl, u, StatedUnits)
    IN  IF HasAt(tl, i, "lock") /\ HasAt(tl, j, "up") /\ k <= 30 /\ d >= 1 /\ unit # ""
        THEN Str(SubSeq(s, g, g + d - 1) \o " " \o SubSeq(s, u, u + Len(unit) - 1))
        ELSE None

\* the stated lock-up of the string s, None when it states none
StatedLockup(s) ==
    LET at == {i \in 1..Len(s) : StatedLockupAt(s, i) # None}
    IN  IF at = {} THEN None ELSE StatedLockupAt(s, Least(at))

\* "<number> days" of the first bare number of days of s, None for none
BareDays(s) ==
    LET tl == Lower(s)
        at == {i \in 1..Len(s) : DaysAt(tl, i)}
    IN  IF at = {} THEN None
        ELSE Str(SubSeq(s, Least(at), Least(at) + DigitRun(tl, Least(at)) - 1) \o " days")

\* C12: when a string of the structure, at any depth, states a lock-up
\* ("lockup", hyphenated or spaced, then within 30 characters a number and
\* one of days/day/months/month) the lockup extracted is "<number> <unit>";
\* otherwise it is "<number> days" of the first bare number of days, or
\* nothing.
C12_LockupAtAnyDepth ==
    fnIn.fn = "s1_signals" =>
        LET strs == AllStrings(fnIn.obj)
            stated == {i \in 1..Len(strs) : StatedLockup(strs[i]) # None}
            bare == {i \in 1..Len(strs) : BareDays(strs[i]) # None}
        IN  fnOut.lockup =
                IF stated # {} THEN StatedLockup(strs[Least(stated)])
                ELSE IF bare # {} THEN BareDays(strs[Least(bare)])
                ELSE None

\* name occurs in text, letter case apart
OccursIn(name, text) ==
    \E i \in 1..(Len(text) - Len(name) + 1) :
        Lower(SubSeq(text, i, i + Len(name) - 1)) = Lower(name)

\* seq without repetition and in the order of first appearance in all
FirstAppearances(seq, all) ==
    /\ \A i, j \in 1..Len(seq) : i # j => seq[i] # seq[j]
    /\ \A i \in 1..Len(seq) : \E k \in 1..Len(all) : all[k] = seq[i]
    /\ \A i, j \in 1..Len(seq) :
        i < j => (Least({k \in 1..Len(all) : all[k] = seq[i]})
                    < Least({k \in 1..Len(all) : all[k] = seq[j]}))
    /\ \A k \in 1..Len(all) :
        (\E i \in 1..Len(seq) : seq[i] = all[k])
        \/ (Len(seq) = 6
            /\ \A i \in 1..Len(seq) : \E m \in 1..(k - 1) : all[m] = seq[i])

C13_PatternReached ==
    /\ fnIn.fn = "underwriters"
    /\ Len(uw_matches(fnIn.text, 1)) = 8
    /\ fnOut.underwriters =
        <<"Alpha Capital", "Beta Group", "Gamma Bank", "Delta LLC", "Eps Corp.", "Zeta Inc.">>

\* C14: the flags of red_flag_scan are one phrase flag for each risk phrase
\* that occurs in the text, letter case apart, in the order of the list,
\* then the EV/Revenue flag exactly when EV/Revenue is above 20, then the
\* Price/Sales flag exactly when Price/Sales is above 30, and nothing else;
\* the list is determined by the text and the multiples.
C14_FlagsInOrder ==
    fnIn.fn = "red_flag_scan" =>
        LET found == SelectSeq(risk_phrases, LAMBDA ph : OccursIn(ph, fnIn.text))
            ev == fnIn.multiples.EV_Revenue
            ps == fnIn.multiples.Price_Sales
            evHigh == ev # None /\ ev.c > 20 * 100
            psHigh == ps # None /\ ps.c > 30 * 100
        IN  /\ Len(fnOut) = Len(found) + (IF evHigh THEN 1 ELSE 0) + (IF psHigh THEN 1 ELSE 0)
            /\ \A i \in 1..Len(found) : fnOut[i] = <<"Phrase", found[i]>>
            /\ evHigh => fnOut[Len(found) + 1] = <<"High EV/Revenue", ev>>
            /\ psHigh => fnOut[Len(fnOut)] = <<"High Price/Sales", ps>>

\* C14 witness: a text with "Going Concern" and EV/Revenue 25 give the
\* phrase flag and then the EV/Revenue flag
C14_Witness ==
    /\ fnIn.fn = "red_flag_scan"
    /\ fnIn.text = "There is a Going Concern warning."
    /\ fnIn.multiples.EV_Revenue = Dec(2500)
    /\ fnOut = <<<<"Phrase", "going concern">>, <<"High EV/Revenue", Dec(2500)>>>>

\* C15: get_tam_cagr returns the curated entry of the first keyword, in the
\* order cybersecurity, ai, biotechnology, renewable energy, fintech, that
\* occurs in the input with letter case apart; when none occurs, an absent
\* input included, it returns the fallback, whose source list has exactly
\* one entry, a search URL that contains the percent-encoded input term.
C15_FirstKeywordOrFallback ==
    fnIn.fn = "get_tam_cagr" =>
        LET given == fnIn.sector_or_industry
            term == IF given = None THEN "" ELSE given.s
            table == <<"cybersecurity", "ai", "biotechnology", "renewable energy", "fintech">>
            found == {i \in 1..Len(table) : OccursIn(table[i], term)}
        IN  IF found # {}
            THEN fnOut = TAM_CAGR_MAP(table[Least(found)])
            ELSE /\ fnOut.cagr = "Unknown"
                 /\ Len(fnOut.sources) = 1
                 /\ StartsWith(fnOut.sources[1].url, "https://www.google.com/search?q=")
                 /\ Contains(fnOut.sources[1].url, quote(term))

\* C15 witness: "Enterprise AI Software" gives the entry of "ai"
C15_Witness ==
    /\ fnIn.fn = "get_tam_cagr"
    /\ fnIn.sector_or_industry = Str("Enterprise AI Software")
    /\ fnOut = TAM_CAGR_MAP("ai")

\* "Widgets" gives the fallback with the search for "market size Widgets"
C15_Fallback ==
    /\ fnIn.fn = "get_tam_cagr"
    /\ fnIn.sector_or_industry = Str("Widgets")
    /\ fnOut.sources = <<[title |-> "Search results",
                          url |-> "https://www.google.com/search?q=market%20size%20Widgets"]>>

\* two keywords in the input, the later one of the table first in the text
C15_TwoKeywords ==
    /\ fnIn.fn = "get_tam_cagr"
    /\ fnIn.sector_or_industry = Str("Fintech & Cybersecurity")
    /\ fnOut = TAM_CAGR_MAP("cybersecurity")

\* the share count of a calendar row as a number
SharesOf(x) == IF x.shares.t = "str" THEN ParseInt(OnlyDigits(x.shares.s)) ELSE x.shares.n

\* price times share count, in hundredths: the price is the point price when
\* given, else the midpoint of a complete range; None when undefined
StatedCap(x) ==
    IF x.shares = None THEN None
    ELSE IF x.price # None THEN Dec(100 * x.price.n * SharesOf(x))
    ELSE IF x.price_min # None /\ x.price_max # None
    THEN Dec(((100 * x.price_min.n + 100 * x.price_max.n) \div 2) * SharesOf(x))
    ELSE None

\* C16: the implied market cap of a calendar row is price times share count,
\* with the point price when given and else the midpoint of the range, and
\* is undefined when the share count is missing or when neither a point
\* price nor a complete range is available.
C16_ImpliedMarketCap ==
    fnIn.fn = "implied_marketcap" => fnOut = StatedCap(fnIn.rows[fnIn.i])

\* a row without point price, with the range 18 to 22 and 1,000,000 shares,
\* in a frame whose other row has a point price: the result is nan
C16_RangeSkipped ==
    /\ fnIn.fn = "implied_marketcap"
    /\ fnIn.rows = <<CapRow(Num(20), None, None, Num(1000000)),
                     CapRow(None, Num(18), Num(22), Num(1000000))>>
    /\ fnIn.i = 2
    /\ fnOut = NaN

\* the same row alone in the frame: 20,000,000
C16_RangeAlone ==
    /\ fnIn.fn = "implied_marketcap"
    /\ fnIn.rows = <<CapRow(None, Num(18), Num(22), Num(1000000))>>
    /\ fnOut = Dec(2000000000)

----------------------------------------------------------------------------
(* Properties of the session and of the scanned text                       *)

\* a value that stands for "no implied market cap"
Undefined(v) == v = None \/ v = NaN

\* entry e holds the company, symbol, date and implied market cap of record rec
EntryOf(e, rec) ==
    /\ DOMAIN e = {"Company", "Symbol", "Date", "ImpliedMarketCap"}
    /\ e.Company = rec.Company /\ e.Symbol = rec.Symbol /\ e.Date = rec.Date
    /\ \/ e.ImpliedMarketCap = rec.ImpliedMarketCap
       \/ Undefined(e.ImpliedMarketCap) /\ Undefined(rec.ImpliedMarketCap)

\* the steps of the enrichment of a candidate
EnrichmentStep ==
    \/ ProfileLookup \/ ValuationMultiples \/ SectorMedian \/ FilingExtraction
    \/ RedFlags \/ Outlook \/ AppendRecord

\* every step leaves the watchlist as it is or appends one entry, that of a
\* card of the page, at its end; an enrichment step leaves it as it is; a
\* watchlist of the session is never made anew
WatchlistStep ==
    /\ watchlist.present => watchlist'.present
    /\ \/ watchlist'.items = watchlist.items
       \/ /\ pc = "done"
          /\ Len(watchlist'.items) = Len(watchlist.items) + 1
          /\ SubSeq(watchlist'.items, 1, Len(watchlist.items)) = watchlist.items
          /\ \E i \in 1..Len(enriched) :
                EntryOf(watchlist'.items[Len(watchlist'.items)], enriched[i])
    /\ EnrichmentStep => watchlist' = watchlist
    /\ (Rerun \/ (watchlist.present /\ StartLoop)) => watchlist' = watchlist

\* the button of every card of the page can add its entry, whether or not
\* the watchlist holds that candidate already
EveryCardAdds ==
    pc = "done" =>
        \A i \in 1..Len(enriched) :
            ENABLED (/\ NextSession
                     /\ Len(watchlist'.items) = Len(watchlist.items) + 1
                     /\ EntryOf(watchlist'.items[Len(watchlist'.items)], enriched[i]))

\* C17: over the runs and the "Add to Watchlist" actions of a session the
\* watchlist is append-only and never de-duplicated: an add appends exactly
\* one entry (company, symbol, date, implied market cap) at the end and
\* leaves the earlier entries as they are, a candidate added twice gives two
\* entries, a new run does not reset the watchlist, and no enrichment step
\* changes it.
C17_WatchlistAppendOnly == []EveryCardAdds /\ [][WatchlistStep]_vars

\* C17 witness: the same candidate was added twice and is in the watchlist
\* twice, after a run that started with one entry in the watchlist
C17_Witness ==
    /\ pc = "shown"
    /\ Len(watchlist.items) = 2
    /\ watchlist.items[1] = watchlist.items[2]
    /\ \E i \in 1..Len(enriched) : EntryOf(watchlist.items[2], enriched[i])

\* the red-flag step of the current candidate has run
Scanned == \E n \in 1..Len(stages) : stages[n] = "red_flags"

\* the filing's combined text when non-empty, else the profile description,
\* else the empty text
ScannedText ==
    IF cur.combined_text # "" THEN cur.combined_text
    ELSE IF cur.profile.description = None THEN ""
    ELSE cur.profile.description.s

\* the phrase flags among the flags, in their order
PhraseFlags(flags) == SelectSeq(flags, LAMBDA f : f[1] = "Phrase")

\* one phrase flag for each risk phrase that occurs in text, in list order
PhraseFlagsOf(text) ==
    LET found == SelectSeq(risk_phrases, LAMBDA ph : OccursIn(ph, text))
    IN  [i \in 1..Len(found) |-> <<"Phrase", found[i]>>]

\* the extraction returned nothing, or the traversal of what it returned raised
NoFilingSignals == ~Truthy(cur.s1_extracted) \/ recursive_search(cur.s1_extracted).raised

\* C18: for every candidate the text scanned for red-flag phrases is the
\* filing's combined text when that is non-empty and else the profile
\* description (or the empty text); when the extraction returns nothing or
\* its traversal raises, the underwriters, the VC backers, the lockup and the
\* filing URL are empty or absent, and the phrase flags are those of the
\* profile description.
C18_ScannedText ==
    Scanned =>
        /\ PhraseFlags(cur.flags) = PhraseFlagsOf(ScannedText)
        /\ NoFilingSignals =>
            /\ cur.underwriters = <<>> /\ cur.vc_backers = <<>>
            /\ cur.lockup = None /\ cur.s1_url = None
            /\ cur.combined_text = ""
            /\ PhraseFlags(cur.flags) =
                 PhraseFlagsOf(IF cur.profile.description = None THEN ""
                               ELSE cur.profile.description.s)

\* C18 witness: the traversal of the filing raised, no filing signal is set,
\* and "related party" is flagged from the profile description
C18_Witness ==
    /\ Scanned
    /\ Truthy(cur.s1_extracted) /\ recursive_search(cur.s1_extracted).raised
    /\ cur.underwriters = <<>> /\ cur.lockup = None /\ cur.s1_url = None
    /\ PhraseFlags(cur.flags) = <<<<"Phrase", "related party">>>>

\* the extraction returned nothing and the description gives the flag
C18_NothingReturned ==
    /\ Scanned
    /\ ~Truthy(cur.s1_extracted)
    /\ PhraseFlags(cur.flags) = <<<<"Phrase", "related party">>>>

\* the filing's text is scanned, not the description: "substantial doubt" is
\* flagged and "related party" is not
C18_FilingTextScanned ==
    /\ Scanned
    /\ cur.combined_text # ""
    /\ cur.profile.description # None
    /\ PhraseFlags(cur.flags) = <<<<"Phrase", "substantial doubt">>>>

====
